---- MODULE Spec2Model ----
(***************************************************************************)
(* The inhouse lobby of ArmanBotty.py and FeederBot.py: the roster, the    *)
(* stored ratings, the team-balancing and captain-pair enumerators, and    *)
(* the generate / reroll reaction protocol that drives them.               *)
(*                                                                         *)
(* A player is the tuple (user_id, name, mmr) of the source, written       *)
(* <<uid, name, mmr>>; p[3] is the source's p[2].  Python lists are        *)
(* sequences; a list position i of the source is position i + 1 here.      *)
(***************************************************************************)
EXTENDS Integers, Sequences, FiniteSets, TLC

(***************************************************************************)
(* Helpers for Python's built-ins.                                         *)
(***************************************************************************)
\* x in seq
InSeq(x, s) == \E i \in 1..Len(s) : s[i] = x

\* set(seq)
SeqToSet(s) == {s[i] : i \in 1..Len(s)}

\* abs(x)
Abs(x) == IF x < 0 THEN -x ELSE x

RECURSIVE SumMmr(_)
\* sum(p[2] for p in team)
SumMmr(team) == IF team = <<>> THEN 0 ELSE Head(team)[3] + SumMmr(Tail(team))

RECURSIVE Flatten(_)
\* the concatenation of a sequence of sequences
Flatten(ss) == IF ss = <<>> THEN <<>> ELSE Head(ss) \o Flatten(Tail(ss))

RECURSIVE SetToSortedSeq(_)
\* the elements of a finite set of integers in ascending order
SetToSortedSeq(S) ==
    IF S = {} THEN <<>>
    ELSE LET m == CHOOSE x \in S : \A y \in S : x <= y
         IN <<m>> \o SetToSortedSeq(S \ {m})

\* a slip: the list is not sorted at all
StableSortBy_skipped(s, at) == s

\* a slip: entries with equal keys come out in reverse order
StableSortBy_ties_reversed(s, at) ==
    LET keys == SetToSortedSeq({s[i][at] : i \in 1..Len(s)})
        run(k) == SelectSeq(s, LAMBDA e : e[at] = keys[k])
    IN Flatten([k \in 1..Len(keys) |->
                   [i \in 1..Len(run(k)) |-> run(k)[Len(run(k)) + 1 - i]]])

\* list.sort(key=...) / sorted(..., key=...): ascending by key and stable, so
\* the elements of one key keep their order and the keys come in ascending
\* order.  The key of an element is its component at position at, an integer.
StableSortBy(s, at) ==
    LET keys == SetToSortedSeq({s[i][at] : i \in 1..Len(s)})
    IN Flatten([k \in 1..Len(keys) |->
                   SelectSeq(s, LAMBDA e : e[at] = keys[k])])

RECURSIVE combinations(_, _)
\* itertools.combinations(s, r): the r-length subsequences of s, in the
\* lexicographic order of their positions.
combinations(s, r) ==
    IF r = 0 THEN << <<>> >>
    ELSE IF Len(s) < r THEN <<>>
    ELSE LET with == combinations(Tail(s), r - 1)
         IN [i \in 1..Len(with) |-> <<Head(s)>> \o with[i]]
            \o combinations(Tail(s), r)

(***************************************************************************)
(* Program constants.                                                      *)
(***************************************************************************)
MAX_ROLLS == 5
IMMORTAL_MAX_ROLLS == 3
\* the literal 10 of the lobby-size tests and the literal 5 of the team size
LOBBY_SIZE == 10
TEAM_SIZE == 5

(***************************************************************************)
(* calculate_balanced_teams(players).  diff is |avg1 - avg2| with          *)
(* avg = sum / 5 in floating point; team2's sum is the roster sum minus    *)
(* team1's, so within one call two splits have the same float diff exactly *)
(* when |sum1 - sum2| agree and order as |sum1 - sum2| does (the rounding  *)
(* error is far below the 0.2 between two distinct values).  The sort key  *)
(* is therefore kept as the integer 5 * diff = |sum1 - sum2|.              *)
(***************************************************************************)
\* a slip: membership in team1 decided by the rating alone
team2_by_rating(roster, team1) ==
    SelectSeq(roster, LAMBDA p : \A i \in 1..Len(team1) : team1[i][3] # p[3])

\* [p for p in players if p not in team1]
team2_of(roster, team1) == SelectSeq(roster, LAMBDA p : ~InSeq(p, team1))

\* a slip: the difference keeps its sign
diff5_signed(team1, team2) == SumMmr(team1) - SumMmr(team2)

diff5(team1, team2) == Abs(SumMmr(team1) - SumMmr(team2))

\* a slip: every split is generated once, with the first participant in team1
team_pairs_one_label(roster) ==
    LET combos == SelectSeq(combinations(roster, TEAM_SIZE),
                            LAMBDA c : c[1] = roster[1])
    IN [i \in 1..Len(combos) |->
           LET team1 == combos[i]
               team2 == team2_of(roster, team1)
           IN <<diff5(team1, team2), team1, team2>>]

team_pairs(roster) ==
    LET combos == combinations(roster, TEAM_SIZE)
    IN [i \in 1..Len(combos) |->
           LET team1 == combos[i]
               team2 == team2_of(roster, team1)
           IN <<diff5(team1, team2), team1, team2>>]

\* a slip: the splits are returned in the order they were generated
balanced_teams_unsorted(roster) ==
    LET pairs == team_pairs(roster)
    IN [i \in 1..Len(pairs) |-> <<pairs[i][2], pairs[i][3]>>]

calculate_balanced_teams(roster) ==
    LET sorted == StableSortBy(team_pairs(roster), 1)
    IN [i \in 1..Len(sorted) |-> <<sorted[i][2], sorted[i][3]>>]

(***************************************************************************)
(* get_all_captain_pairs(players): entries ((p1, p2), pool, diff).         *)
(***************************************************************************)
\* a slip: only the first captain is left out of the pool
captain_entry_keeps_p2(sorted_players, i, j) ==
    LET p1 == sorted_players[i]
        p2 == sorted_players[j]
    IN << <<p1, p2>>, SelectSeq(sorted_players, LAMBDA p : p # p1),
          Abs(p1[3] - p2[3]) >>

captain_entry(sorted_players, i, j) ==
    LET p1 == sorted_players[i]
        p2 == sorted_players[j]
    IN << <<p1, p2>>,
          SelectSeq(sorted_players, LAMBDA p : p # p1 /\ p # p2),
          Abs(p1[3] - p2[3]) >>

get_all_captain_pairs(roster) ==
    LET sorted_players == StableSortBy(roster, 3)
        n == Len(sorted_players)
        row(i) == [k \in 1..(n - i) |-> captain_entry(sorted_players, i, i + k)]
        pairs == Flatten([i \in 1..n |-> row(i)])
    IN StableSortBy(pairs, 3)

(***************************************************************************)
(* Bounds of the model and the inputs the events are drawn from.           *)
(***************************************************************************)
\* users are 1..MaxUser; 1..CoreSize are added by one bulk add command
MaxUser == 11
CoreSize == MaxUser - 2
\* the history counters of consecutive rerolls are dropped beyond this count
MaxStreak == 6
\* the history counter of generates in a row stops at this count
MaxGens == 2

Users == 1..MaxUser
Core == [i \in 1..CoreSize |-> i]
\* the users who react to the lobby message
Reactors == (CoreSize + 1)..MaxUser
\* the member lists of the add and remove commands
AddArgs == {Core, <<CoreSize + 1, CoreSize + 1>>, <<CoreSize + 1, CoreSize + 2>>}
RemoveArgs == {<<1>>, <<CoreSize + 1>>, <<CoreSize + 2, CoreSize + 1>>}
TheGuild == 1

(***************************************************************************)
(* State.  The dictionaries of FeederBot are functions over the guilds;    *)
(* ArmanBotty keeps one lobby in globals, which is the entry of its one    *)
(* guild.  A key that the source reads only after setdefault (roll_count,  *)
(* team_rolls, original_teams, lobby_players) holds the default from the   *)
(* start; lobby_message, inhouse_mode and captain_draft_state, whose       *)
(* absence the source tests, have an explicit absent value.                *)
(***************************************************************************)
VARIABLES
    program,              \* which bot runs: "ArmanBotty" or "FeederBot"
    player_db,            \* player_data / the Firestore "players" collection
    lobby_players,        \* guild -> list of (user_id, name, mmr)
    lobby_message,        \* guild -> "None" or "msg" (the lobby message)
    inhouse_mode,         \* guild -> "absent", "regular" or "immortal"
    mode_store,           \* guild -> the mode saved in Firestore
    roll_count,           \* guild -> int
    team_rolls,           \* guild -> list of (team1, team2)
    original_teams,       \* guild -> <<>> (None) or the pair last stored
    captain_draft_state,  \* guild -> [has, pairs, index]
    last,                 \* history: the last event and what it displayed
    streak,               \* history: guild -> the accepted regular rerolls that
                          \* directly followed the last generate (-1: another
                          \* event came in between, or no generate yet)
    draft_streak,         \* history: the same count in captain-draft mode
    gens,                 \* history: guild -> the accepted generates in a row
                          \* up to now (0: the last event was another one)
    players,              \* the argument of a direct call of an enumerator
    ret,                  \* and what the call returned
    wallets,              \* Firestore "wallets": user -> [exists, balance]
    bet_entries,          \* Firestore "bets"/<match_key>/"entries":
                          \* <<match_key, document id>> -> [exists, user_id,
                          \* team, amount]
    guild_bets,           \* Firestore "guild_specific_info"/<guild>/"bets":
                          \* <<guild, user>> -> [exists, team, amount]
    tasks,                \* the handlers in flight: task -> where the
                          \* coroutine is suspended and its local variables
    reactions,            \* the rocket and recycle reactions that are on the
                          \* lobby message
    inhouse_mmr,          \* Firestore "inhouse_mmr"/<guild>/"users":
                          \* <<guild, user>> -> [exists, mmr]
    LIVE_CHANNEL_IDS,     \* guild -> what is cached under the guild's key:
                          \* nothing, a channel id, or the stored dictionary
    live_channel_store,   \* Firestore "guild_specific_info"/<guild>: the
                          \* channel of its live_channel_id field (0: none)
    live_embed_messages,  \* guild -> the channel of the live-match message
                          \* that is cached for the guild (0: none)
    polling_task,         \* the global task reference: "None", "running",
                          \* "cancelling" (cancel() was called, the task has
                          \* not yet been resumed) or "done"
    live_tasks,           \* the number of poll_live_match tasks not yet done
    responses,            \* what STRATZ answers to the requests of one call,
                          \* in order: "200", "429", "500" or "exception"
    fetch_call            \* the call made with them and what it returned

vars == <<program, player_db, lobby_players, lobby_message, inhouse_mode,
          mode_store, roll_count, team_rolls, original_teams,
          captain_draft_state, last, streak, draft_streak, gens, players,
          ret, wallets, bet_entries, guild_bets, tasks, reactions,
          inhouse_mmr, LIVE_CHANNEL_IDS, live_channel_store,
          live_embed_messages, polling_task, live_tasks, responses, fetch_call>>

pure_vars == <<players, ret>>
bet_vars == <<wallets, bet_entries, guild_bets>>
task_vars == <<tasks, reactions>>
live_vars == <<LIVE_CHANNEL_IDS, live_channel_store, live_embed_messages,
               polling_task, live_tasks>>
fetch_vars == <<responses, fetch_call>>
service_vars == <<inhouse_mmr, live_vars, fetch_vars>>
rating_vars == <<player_db>>
cursor_vars == <<roll_count, team_rolls, original_teams, captain_draft_state>>
mode_vars == <<inhouse_mode, mode_store>>

\* a rating stored as None (cfg could not determine an MMR)
NoneMmr == -999999

\* a seasonRank of None (the STRATZ request failed)
NoneRank == NoneMmr

NoDoc == [exists |-> FALSE, mmr |-> 0, steam |-> FALSE]
\* a document written by cfg: it holds a steam_id
Doc(m) == [exists |-> TRUE, mmr |-> m, steam |-> TRUE]
\* a write of the mmr field alone: the other fields of the document stay
MergeMmr(doc, m) == [exists |-> TRUE, mmr |-> m, steam |-> doc.steam]
\* Python's truth value of a fetched rating
Truthy(m) == m # NoneMmr /\ m # 0
NoDraft == [has |-> FALSE, pairs |-> <<>>, index |-> 0]
\* no enumerator has been called directly
NoCall == [fn |-> "none", val |-> <<>>]

(***************************************************************************)
(* betting_manager.py: the documents of the wallets and of the bets.       *)
(***************************************************************************)
\* the users who bet
Bettors == 1..3
\* the characters nicknames are written with
NickChars == {"A", "a", " ", "-", "_"}
\* str.lower() on one character
Lower(c) == IF c = "A" THEN "a" ELSE c
\* re.sub(r'[^\w\-]', '_', nickname.lower()), character by character
sanitize(nickname) ==
    [i \in 1..Len(nickname) |->
        LET c == Lower(nickname[i])
        IN IF c \in {"a", "_", "-"} THEN c ELSE "_"]
\* ctx.author.nick or display_name; users 1 and 2 get the same document id
Nickname(u) ==
    IF u = 1 THEN <<"A", " ">> ELSE IF u = 2 THEN <<"a", "_">> ELSE <<"a", "-">>
EntryIds == {sanitize(Nickname(u)) : u \in Bettors}

NoWallet == [exists |-> FALSE, balance |-> 0]
Wallet(b) == [exists |-> TRUE, balance |-> b]
NoBet == [exists |-> FALSE, user_id |-> 0, team |-> "", amount |-> 0]
BetDoc(u, team, amount) ==
    [exists |-> TRUE, user_id |-> u, team |-> team, amount |-> amount]
NoGuildBet == [exists |-> FALSE, team |-> "", amount |-> 0]

\* nothing was ever bet
NoBets ==
    /\ wallets = [u \in Bettors |-> NoWallet]
    /\ bet_entries = [k \in {TheGuild} \X EntryIds |-> NoBet]
    /\ guild_bets = [k \in {TheGuild} \X Bettors |-> NoGuildBet]

\* the handlers that may be in flight at once
MaxTasks == 2
TaskIds == 1..MaxTasks
\* a task that is not running
Idle == [kind |-> "idle", user |-> 0, pc |-> "idle", was_full |-> FALSE,
         snapshot |-> {}]
\* the reactions that the leave branch and !remove clear
Special == {"rocket", "recycle"}
\* no handler is in flight and the lobby message carries neither reaction
NoTasks ==
    /\ tasks = [t \in TaskIds |-> Idle]
    /\ reactions = {}

\* the guilds whose inhouse ratings and live channels are kept
ServiceGuilds == {TheGuild, TheGuild + 1}
\* the users who are rated
Rated == 1..3
NoRating == [exists |-> FALSE, mmr |-> 0]
Rating(m) == [exists |-> TRUE, mmr |-> m]
\* what LIVE_CHANNEL_IDS.get(guild) can be: None, the int that
\* set_live_channel caches, the dict that on_ready loads
NoChannel == [kind |-> "None", channel |-> 0]
IntChannel(c) == [kind |-> "int", channel |-> c]
DictChannel(c) == [kind |-> "dict", channel |-> c]
\* no call of a fetch function has been made
NotFetched == [fn |-> "none", value |-> "None", requests |-> 0,
               max_retries |-> 0]
\* nobody is rated, no live channel is set, nothing polls, nothing is fetched
NoServices ==
    /\ inhouse_mmr = [k \in ServiceGuilds \X Rated |-> NoRating]
    /\ LIVE_CHANNEL_IDS = [g \in ServiceGuilds |-> NoChannel]
    /\ live_channel_store = [g \in ServiceGuilds |-> 0]
    /\ live_embed_messages = [g \in ServiceGuilds |-> 0]
    /\ polling_task = "None"
    /\ live_tasks = 0
    /\ responses = <<>>
    /\ fetch_call = NotFetched

\* the record of an event: the handler, its guild, its user or member list,
\* how it ended, and the alternative it put on the lobby message (<<>>: none)
Ev(op, g, arg, res, shown) ==
    [op |-> op, g |-> g, arg |-> arg, res |-> res, shown |-> shown]

Guilds == DOMAIN lobby_players

\* an event of guild g other than an accepted generate or reroll ends the run
\* of consecutive rerolls that the history counters count
EndStreak(g) ==
    /\ streak' = [streak EXCEPT ![g] = -1]
    /\ draft_streak' = [draft_streak EXCEPT ![g] = -1]
    /\ gens' = [gens EXCEPT ![g] = 0]

\* hash(user.name): fixed within one run of the bot
name_hash(u) == u * 7919

\* (user.id, name, mmr); the name is a function of the member
Player(u, mmr) == <<u, u, mmr>>

\* any(uid == user.id for uid, _, _ in roster)
HasUid(roster, u) == \E i \in 1..Len(roster) : roster[i][1] = u

\* for i, (uid, _, _) in enumerate(roster): if uid == u: del roster[i]; break
\* a removal that fills the gap with the roster's last entry
RemoveUid_swap_last(roster, u) ==
    IF ~HasUid(roster, u) THEN roster
    ELSE LET i == CHOOSE k \in 1..Len(roster) :
                     /\ roster[k][1] = u
                     /\ \A j \in 1..(k - 1) : roster[j][1] # u
             n == Len(roster)
         IN IF i = n THEN SubSeq(roster, 1, n - 1)
            ELSE SubSeq(roster, 1, i - 1) \o <<roster[n]>>
                 \o SubSeq(roster, i + 1, n - 1)

RemoveUid(roster, u) ==
    IF ~HasUid(roster, u) THEN roster
    ELSE LET i == CHOOSE k \in 1..Len(roster) :
                     /\ roster[k][1] = u
                     /\ \A j \in 1..(k - 1) : roster[j][1] # u
         IN SubSeq(roster, 1, i - 1) \o SubSeq(roster, i + 1, Len(roster))

RECURSIVE RemoveMembers(_, _)
\* the loop of remove_from_lobby over its members
RemoveMembers(roster, members) ==
    IF members = <<>> THEN roster
    ELSE RemoveMembers(RemoveUid(roster, Head(members)), Tail(members))

\* sum() of a team and sorted() of the roster raise TypeError on a None rating
RatingsAreInts(roster) == \A i \in 1..Len(roster) : roster[i][3] # NoneMmr

\* one more generate in a row; the count stops at MaxGens
MoreGens(n) == IF n < MaxGens THEN n + 1 ELSE n

\* one more consecutive reroll; the count is dropped beyond MaxStreak
Bump(n) == IF n < 0 \/ n >= MaxStreak THEN -1 ELSE n + 1

\* season_rank_to_mmr of FeederBot.py
FB_season_rank_to_mmr ==
    11 :> 77 @@ 12 :> 231 @@ 13 :> 385 @@ 14 :> 539 @@ 15 :> 693 @@
    21 :> 847 @@ 22 :> 1001 @@ 23 :> 1155 @@ 24 :> 1309 @@ 25 :> 1463 @@
    31 :> 1594 @@ 32 :> 1749 @@ 33 :> 1953 @@ 34 :> 2081 @@ 35 :> 2208 @@
    41 :> 2387 @@ 42 :> 2541 @@ 43 :> 2695 @@ 44 :> 2849 @@ 45 :> 3003 @@
    51 :> 3157 @@ 52 :> 3311 @@ 53 :> 3465 @@ 54 :> 3619 @@ 55 :> 3772 @@
    61 :> 3927 @@ 62 :> 4081 @@ 63 :> 4235 @@ 64 :> 4389 @@ 65 :> 4542 @@
    71 :> 4720 @@ 72 :> 4920 @@ 73 :> 5120 @@ 74 :> 5320 @@ 75 :> 5520

\* season_rank_to_mmr of ArmanBotty.py
AB_season_rank_to_mmr ==
    FB_season_rank_to_mmr @@
    81 :> 5650 @@ 82 :> 5650 @@ 83 :> 5650 @@ 84 :> 5650 @@ 85 :> 5650

\* fetch_mmr_from_stratz: the answer carries a seasonRank (NoneRank when the
\* request failed); returns (season_rank_to_mmr.get(rank, None), rank)
fetch_mmr_from_stratz(table, rank) ==
    [mmr |-> IF rank \in DOMAIN table THEN table[rank] ELSE NoneMmr,
     season_rank |-> rank]

(***************************************************************************)
(* ArmanBotty.py                                                           *)
(***************************************************************************)
AB_get_mmr(u) ==
    IF player_db[u].exists THEN player_db[u].mmr
    ELSE 4000 + (name_hash(u) % 3000)

RECURSIVE AB_AddMembers(_, _)
\* the loop of add_to_lobby over its members
AB_AddMembers(roster, members) ==
    IF members = <<>> THEN roster
    ELSE LET m == Head(members)
         IN AB_AddMembers(IF HasUid(roster, m) THEN roster
                          ELSE Append(roster, Player(m, AB_get_mmr(m))),
                          Tail(members))

\* the start of on_raw_reaction_add: the reaction is on the lobby message
AB_Gate(g) == program = "ArmanBotty" /\ lobby_message[g] = "msg"

AB_ThumbsUp(g, u) ==
    /\ AB_Gate(g)
    /\ IF ~HasUid(lobby_players[g], u)
       THEN /\ lobby_players' = [lobby_players EXCEPT
                   ![g] = Append(@, Player(u, AB_get_mmr(u)))]
            /\ last' = Ev("join", g, <<>>, "ok", <<>>)
       ELSE /\ UNCHANGED lobby_players
            /\ last' = Ev("join", g, <<>>, "present", <<>>)
    /\ UNCHANGED <<program, lobby_message, mode_vars, cursor_vars,
                   rating_vars, pure_vars, bet_vars, task_vars, service_vars>>
    /\ EndStreak(g)

AB_ThumbsDown(g, u) ==
    /\ AB_Gate(g)
    /\ lobby_players' = [lobby_players EXCEPT ![g] = RemoveUid(@, u)]
    /\ last' = Ev("leave", g, <<>>,
                  IF HasUid(lobby_players[g], u) THEN "ok" ELSE "absent", <<>>)
    /\ UNCHANGED <<program, lobby_message, mode_vars, cursor_vars,
                   rating_vars, pure_vars, bet_vars, task_vars, service_vars>>
    /\ EndStreak(g)

\* a slip: the roster is sorted by rating in place before the teams are made
AB_Rocket_sorts_roster(g, u) ==
    /\ AB_Gate(g)
    /\ Len(lobby_players[g]) = LOBBY_SIZE
    /\ lobby_players' = [lobby_players EXCEPT ![g] = StableSortBy(@, 3)]
    /\ team_rolls' = [team_rolls EXCEPT
           ![g] = calculate_balanced_teams(lobby_players'[g])]
    /\ original_teams' = [original_teams EXCEPT ![g] = team_rolls'[g][1]]
    /\ roll_count' = [roll_count EXCEPT ![g] = 1]
    /\ streak' = [streak EXCEPT ![g] = 0]
    /\ draft_streak' = [draft_streak EXCEPT ![g] = -1]
    /\ gens' = [gens EXCEPT ![g] = MoreGens(@)]
    /\ last' = Ev("generate", g, <<>>, "regular", original_teams'[g])
    /\ UNCHANGED <<program, captain_draft_state, lobby_message, mode_vars,
                   rating_vars, pure_vars, bet_vars, task_vars, service_vars>>

AB_Rocket(g, u) ==
    /\ AB_Gate(g)
    /\ IF Len(lobby_players[g]) # LOBBY_SIZE
       THEN /\ last' = Ev("generate", g, <<>>, "ignored", <<>>)
            /\ UNCHANGED cursor_vars
            /\ EndStreak(g)
       ELSE IF ~RatingsAreInts(lobby_players[g])
       THEN /\ last' = Ev("generate", g, <<>>, "raised", <<>>)
            /\ UNCHANGED cursor_vars
            /\ EndStreak(g)
       ELSE /\ team_rolls' = [team_rolls EXCEPT
                   ![g] = calculate_balanced_teams(lobby_players[g])]
            /\ original_teams' = [original_teams EXCEPT ![g] = team_rolls'[g][1]]
            /\ roll_count' = [roll_count EXCEPT ![g] = 1]
            /\ streak' = [streak EXCEPT ![g] = 0]
            /\ draft_streak' = [draft_streak EXCEPT ![g] = -1]
            /\ gens' = [gens EXCEPT ![g] = MoreGens(@)]
            /\ last' = Ev("generate", g, <<>>, "regular", original_teams'[g])
            /\ UNCHANGED captain_draft_state
    /\ UNCHANGED <<program, lobby_players, lobby_message, mode_vars,
                   rating_vars, pure_vars, bet_vars, task_vars, service_vars>>

\* a slip: the recycle branch does not look at the roster size
AB_Recycle_any_size(g, u, is_admin) ==
    /\ AB_Gate(g)
    /\ IF ~is_admin
       THEN /\ last' = Ev("reroll", g, <<>>, "denied", <<>>)
            /\ UNCHANGED cursor_vars
            /\ EndStreak(g)
       ELSE IF team_rolls[g] = <<>>
       THEN /\ last' = Ev("reroll", g, <<>>, "noactive", <<>>)
            /\ UNCHANGED cursor_vars
            /\ EndStreak(g)
       ELSE /\ IF roll_count[g] >= MAX_ROLLS
               THEN /\ roll_count' = [roll_count EXCEPT ![g] = 1]
                    /\ last' = Ev("reroll", g, <<>>, "regular", original_teams[g])
               ELSE /\ roll_count' = [roll_count EXCEPT ![g] = @ + 1]
                    /\ last' = Ev("reroll", g, <<>>, "regular",
                                  team_rolls[g][roll_count'[g]])
            /\ streak' = [streak EXCEPT ![g] = Bump(@)]
            /\ draft_streak' = [draft_streak EXCEPT ![g] = -1]
            /\ gens' = [gens EXCEPT ![g] = 0]
            /\ UNCHANGED <<team_rolls, original_teams, captain_draft_state>>
    /\ UNCHANGED <<program, lobby_players, lobby_message, mode_vars,
                   rating_vars, pure_vars, bet_vars, task_vars, service_vars>>

AB_Recycle(g, u, is_admin) ==
    /\ AB_Gate(g)
    /\ IF Len(lobby_players[g]) # LOBBY_SIZE
       THEN /\ last' = Ev("reroll", g, <<>>, "ignored", <<>>)
            /\ UNCHANGED cursor_vars
            /\ EndStreak(g)
       ELSE IF ~is_admin
       THEN /\ last' = Ev("reroll", g, <<>>, "denied", <<>>)
            /\ UNCHANGED cursor_vars
            /\ EndStreak(g)
       ELSE IF team_rolls[g] = <<>>
       THEN /\ last' = Ev("reroll", g, <<>>, "noactive", <<>>)
            /\ UNCHANGED cursor_vars
            /\ EndStreak(g)
       ELSE /\ IF roll_count[g] >= MAX_ROLLS
               THEN /\ roll_count' = [roll_count EXCEPT ![g] = 1]
                    /\ last' = Ev("reroll", g, <<>>, "regular", original_teams[g])
               ELSE /\ roll_count' = [roll_count EXCEPT ![g] = @ + 1]
                    /\ last' = Ev("reroll", g, <<>>, "regular",
                                  team_rolls[g][roll_count'[g]])
            /\ streak' = [streak EXCEPT ![g] = Bump(@)]
            /\ draft_streak' = [draft_streak EXCEPT ![g] = -1]
            /\ gens' = [gens EXCEPT ![g] = 0]
            /\ UNCHANGED <<team_rolls, original_teams, captain_draft_state>>
    /\ UNCHANGED <<program, lobby_players, lobby_message, mode_vars,
                   rating_vars, pure_vars, bet_vars, task_vars, service_vars>>

AB_add_to_lobby(g, members) ==
    /\ program = "ArmanBotty"
    /\ lobby_players' = [lobby_players EXCEPT ![g] = AB_AddMembers(@, members)]
    /\ last' = Ev("add", g, members,
                  IF lobby_players'[g] # lobby_players[g] THEN "ok" ELSE "none",
                  <<>>)
    /\ UNCHANGED <<program, lobby_message, mode_vars, cursor_vars,
                   rating_vars, pure_vars, bet_vars, task_vars, service_vars>>
    /\ EndStreak(g)

AB_remove_from_lobby(g, members) ==
    /\ program = "ArmanBotty"
    /\ lobby_players' = [lobby_players EXCEPT ![g] = RemoveMembers(@, members)]
    /\ last' = Ev("remove", g, members,
                  IF lobby_players'[g] # lobby_players[g] THEN "ok" ELSE "none",
                  <<>>)
    /\ UNCHANGED <<program, lobby_message, mode_vars, cursor_vars,
                   rating_vars, pure_vars, bet_vars, task_vars, service_vars>>
    /\ EndStreak(g)

AB_lobby_cmd(g) ==
    /\ program = "ArmanBotty"
    /\ lobby_message' = [lobby_message EXCEPT ![g] = "msg"]
    /\ last' = Ev("lobby", g, <<>>, "ok", <<>>)
    /\ UNCHANGED <<program, lobby_players, mode_vars, cursor_vars,
                   rating_vars, pure_vars, bet_vars, task_vars, service_vars>>
    /\ EndStreak(g)

AB_reset(g) ==
    /\ program = "ArmanBotty"
    /\ lobby_players' = [lobby_players EXCEPT ![g] = <<>>]
    /\ lobby_message' = [lobby_message EXCEPT ![g] = "msg"]
    /\ last' = Ev("reset", g, <<>>, "ok", <<>>)
    /\ UNCHANGED <<program, mode_vars, cursor_vars, rating_vars, pure_vars, bet_vars, task_vars, service_vars>>
    /\ EndStreak(g)

\* !cfg <steam_id> [member]: stores whatever the fetch returned
AB_cfg_cmd(g, target, rank) ==
    /\ program = "ArmanBotty"
    /\ player_db' = [player_db EXCEPT
           ![target] = Doc(fetch_mmr_from_stratz(AB_season_rank_to_mmr, rank).mmr)]
    /\ last' = Ev("cfg", g, <<target>>, "ok", <<>>)
    /\ UNCHANGED <<program, lobby_players, lobby_message, mode_vars,
                   cursor_vars, pure_vars, bet_vars, task_vars, service_vars>>
    /\ EndStreak(g)

\* !set_mmr <mmr> <member>, for administrators
AB_set_mmr(g, is_admin, mmr, member) ==
    /\ program = "ArmanBotty"
    /\ IF is_admin
       THEN /\ player_db' = [player_db EXCEPT ![member] = MergeMmr(@, mmr)]
            /\ last' = Ev("setmmr", g, <<member>>, "ok", <<>>)
       ELSE /\ last' = Ev("setmmr", g, <<member>>, "denied", <<>>)
            /\ UNCHANGED player_db
    /\ UNCHANGED <<program, lobby_players, lobby_message, mode_vars,
                   cursor_vars, pure_vars, bet_vars, task_vars, service_vars>>
    /\ EndStreak(g)

\* the documents after refresh_all_mmrs: every document with a steam_id
\* whose fetched rating is truthy takes that rating
Refreshed(table, fetched) ==
    [u \in Users |->
        LET mmr == fetch_mmr_from_stratz(table, fetched[u]).mmr
        IN IF player_db[u].exists /\ player_db[u].steam /\ Truthy(mmr)
           THEN [player_db[u] EXCEPT !.mmr = mmr]
           ELSE player_db[u]]

\* no rotation history survives an event that belongs to no single guild
EndEveryStreak ==
    /\ streak' = [g \in Guilds |-> -1]
    /\ draft_streak' = [g \in Guilds |-> -1]
    /\ gens' = [g \in Guilds |-> 0]

\* the 24-hour task; fetched[u] is the season rank STRATZ answers for u
AB_refresh_all_mmrs(fetched) ==
    /\ program = "ArmanBotty"
    /\ player_db' = Refreshed(AB_season_rank_to_mmr, fetched)
    /\ last' = Ev("refresh", TheGuild, <<>>, "ok", <<>>)
    /\ UNCHANGED <<program, lobby_players, lobby_message, mode_vars,
                   cursor_vars, pure_vars, bet_vars, task_vars, service_vars>>
    /\ EndEveryStreak

(***************************************************************************)
(* FeederBot.py                                                            *)
(***************************************************************************)
FB_get_mmr(u) == IF player_db[u].exists THEN player_db[u].mmr ELSE 0

\* a slip: the members are appended without looking for them in the roster
FB_AddMembers_all(roster, members) ==
    roster \o [i \in 1..Len(members) |->
                  Player(members[i], FB_get_mmr(members[i]))]

RECURSIVE FB_AddMembers(_, _)
\* the loop of add_to_lobby over its members
FB_AddMembers(roster, members) ==
    IF members = <<>> THEN roster
    ELSE LET m == Head(members)
         IN FB_AddMembers(IF HasUid(roster, m) THEN roster
                          ELSE Append(roster, Player(m, FB_get_mmr(m))),
                          Tail(members))

\* inhouse_mode.get(guild_id, "regular")
ModeOf(g) == IF inhouse_mode[g] = "absent" THEN "regular" ELSE inhouse_mode[g]

\* build_lobby_embed: a guild without a mode in memory gets the stored one
build_lobby_embed(g) ==
    [inhouse_mode EXCEPT ![g] = IF @ = "absent" THEN mode_store[g] ELSE @]

\* update_lobby_embed: returns at once when the guild has no lobby message
update_lobby_embed(g) ==
    IF lobby_message[g] = "None" THEN inhouse_mode ELSE build_lobby_embed(g)

\* the start of on_raw_reaction_add: the reaction is on the guild's lobby message
FB_Gate(g) == program = "FeederBot" /\ lobby_message[g] = "msg"

FB_ThumbsUp(g, u) ==
    /\ FB_Gate(g)
    /\ IF Len(lobby_players[g]) >= LOBBY_SIZE
       THEN /\ last' = Ev("join", g, <<>>, "full", <<>>)
            /\ UNCHANGED <<lobby_players, inhouse_mode>>
       ELSE IF ~HasUid(lobby_players[g], u)
       THEN /\ lobby_players' = [lobby_players EXCEPT
                   ![g] = Append(@, Player(u, FB_get_mmr(u)))]
            /\ inhouse_mode' = update_lobby_embed(g)
            /\ last' = Ev("join", g, <<>>, "ok", <<>>)
       ELSE /\ last' = Ev("join", g, <<>>, "present", <<>>)
            /\ UNCHANGED <<lobby_players, inhouse_mode>>
    /\ UNCHANGED <<program, lobby_message, mode_store, cursor_vars,
                   rating_vars, pure_vars, bet_vars, task_vars, service_vars>>
    /\ EndStreak(g)

FB_ThumbsDown(g, u) ==
    /\ FB_Gate(g)
    /\ lobby_players' = [lobby_players EXCEPT ![g] = RemoveUid(@, u)]
    /\ IF HasUid(lobby_players[g], u)
       THEN /\ inhouse_mode' = update_lobby_embed(g)
            /\ last' = Ev("leave", g, <<>>, "ok", <<>>)
       ELSE /\ last' = Ev("leave", g, <<>>, "absent", <<>>)
            /\ UNCHANGED inhouse_mode
    /\ UNCHANGED <<program, lobby_message, mode_store, cursor_vars,
                   rating_vars, pure_vars, bet_vars, task_vars, service_vars>>
    /\ EndStreak(g)

\* a generate that leaves a cursor that is already set where it is
FB_Rocket_keeps_cursor(g, u) ==
    /\ FB_Gate(g)
    /\ IF Len(lobby_players[g]) # LOBBY_SIZE
       THEN /\ last' = Ev("generate", g, <<>>, "ignored", <<>>)
            /\ UNCHANGED cursor_vars
            /\ EndStreak(g)
       ELSE IF ~RatingsAreInts(lobby_players[g])
       THEN /\ last' = Ev("generate", g, <<>>, "raised", <<>>)
            /\ UNCHANGED cursor_vars
            /\ EndStreak(g)
       ELSE IF ModeOf(g) = "regular"
       THEN /\ team_rolls' = [team_rolls EXCEPT
                   ![g] = calculate_balanced_teams(lobby_players[g])]
            /\ original_teams' = [original_teams EXCEPT ![g] = team_rolls'[g][1]]
            /\ roll_count' = [roll_count EXCEPT ![g] = IF @ = 0 THEN 1 ELSE @]
            /\ streak' = [streak EXCEPT ![g] = 0]
            /\ draft_streak' = [draft_streak EXCEPT ![g] = -1]
            /\ gens' = [gens EXCEPT ![g] = MoreGens(@)]
            /\ last' = Ev("generate", g, <<>>, "regular", original_teams'[g])
            /\ UNCHANGED captain_draft_state
       ELSE /\ captain_draft_state' = [captain_draft_state EXCEPT
                   ![g] = [has |-> TRUE,
                           pairs |-> get_all_captain_pairs(lobby_players[g]),
                           index |-> IF @.has THEN @.index ELSE 0]]
            /\ original_teams' = [original_teams EXCEPT
                   ![g] = <<captain_draft_state'[g].pairs[1][1],
                            captain_draft_state'[g].pairs[1][2]>>]
            /\ draft_streak' = [draft_streak EXCEPT ![g] = 0]
            /\ streak' = [streak EXCEPT ![g] = -1]
            /\ gens' = [gens EXCEPT ![g] = MoreGens(@)]
            /\ last' = Ev("generate", g, <<>>, "immortal", original_teams'[g])
            /\ UNCHANGED <<team_rolls, roll_count>>
    /\ UNCHANGED <<program, lobby_players, lobby_message, mode_vars,
                   rating_vars, pure_vars, bet_vars, task_vars, service_vars>>

FB_Rocket(g, u) ==
    /\ FB_Gate(g)
    /\ IF Len(lobby_players[g]) # LOBBY_SIZE
       THEN /\ last' = Ev("generate", g, <<>>, "ignored", <<>>)
            /\ UNCHANGED cursor_vars
            /\ EndStreak(g)
       ELSE IF ~RatingsAreInts(lobby_players[g])
       THEN /\ last' = Ev("generate", g, <<>>, "raised", <<>>)
            /\ UNCHANGED cursor_vars
            /\ EndStreak(g)
       ELSE IF ModeOf(g) = "regular"
       THEN /\ team_rolls' = [team_rolls EXCEPT
                   ![g] = calculate_balanced_teams(lobby_players[g])]
            /\ original_teams' = [original_teams EXCEPT ![g] = team_rolls'[g][1]]
            /\ roll_count' = [roll_count EXCEPT ![g] = 1]
            /\ streak' = [streak EXCEPT ![g] = 0]
            /\ draft_streak' = [draft_streak EXCEPT ![g] = -1]
            /\ gens' = [gens EXCEPT ![g] = MoreGens(@)]
            /\ last' = Ev("generate", g, <<>>, "regular", original_teams'[g])
            /\ UNCHANGED captain_draft_state
       ELSE /\ captain_draft_state' = [captain_draft_state EXCEPT
                   ![g] = [has |-> TRUE,
                           pairs |-> get_all_captain_pairs(lobby_players[g]),
                           index |-> 0]]
            /\ original_teams' = [original_teams EXCEPT
                   ![g] = <<captain_draft_state'[g].pairs[1][1],
                            captain_draft_state'[g].pairs[1][2]>>]
            /\ draft_streak' = [draft_streak EXCEPT ![g] = 0]
            /\ streak' = [streak EXCEPT ![g] = -1]
            /\ gens' = [gens EXCEPT ![g] = MoreGens(@)]
            /\ last' = Ev("generate", g, <<>>, "immortal", original_teams'[g])
            /\ UNCHANGED <<team_rolls, roll_count>>
    /\ UNCHANGED <<program, lobby_players, lobby_message, mode_vars,
                   rating_vars, pure_vars, bet_vars, task_vars, service_vars>>

\* a slip: the count is reset one reroll later
FB_RecycleRegular_late(g, u) ==
    /\ roll_count' = [roll_count EXCEPT
           ![g] = IF @ > MAX_ROLLS THEN 1 ELSE @ + 1]
    /\ streak' = [streak EXCEPT ![g] = Bump(@)]
    /\ draft_streak' = [draft_streak EXCEPT ![g] = -1]
    /\ gens' = [gens EXCEPT ![g] = 0]
    /\ team_rolls' = [team_rolls EXCEPT
           ![g] = calculate_balanced_teams(lobby_players[g])]
    /\ original_teams' = [original_teams EXCEPT ![g] = team_rolls'[g][1]]
    /\ last' = Ev("reroll", g, <<>>, "regular", original_teams'[g])
    /\ UNCHANGED captain_draft_state

FB_RecycleRegular(g, u) ==
    /\ roll_count' = [roll_count EXCEPT
           ![g] = IF @ >= MAX_ROLLS THEN 1 ELSE @ + 1]
    /\ streak' = [streak EXCEPT ![g] = Bump(@)]
    /\ draft_streak' = [draft_streak EXCEPT ![g] = -1]
    /\ gens' = [gens EXCEPT ![g] = 0]
    /\ IF ~RatingsAreInts(lobby_players[g])
       THEN /\ last' = Ev("reroll", g, <<>>, "raised", <<>>)
            /\ UNCHANGED <<team_rolls, original_teams>>
       ELSE /\ team_rolls' = [team_rolls EXCEPT
                   ![g] = calculate_balanced_teams(lobby_players[g])]
            /\ original_teams' = [original_teams EXCEPT ![g] = team_rolls'[g][1]]
            /\ last' = Ev("reroll", g, <<>>, "regular", original_teams'[g])
    /\ UNCHANGED captain_draft_state

\* a slip: the index wraps one step early
FB_RecycleImmortal_early(g, u) ==
    LET pairs == IF captain_draft_state[g].has
                 THEN captain_draft_state[g].pairs
                 ELSE get_all_captain_pairs(lobby_players[g])
        old == IF captain_draft_state[g].has
               THEN captain_draft_state[g].index ELSE 0
    IN /\ captain_draft_state' = [captain_draft_state EXCEPT
              ![g] = [has |-> TRUE, pairs |-> pairs,
                      index |-> (old + 1) % IMMORTAL_MAX_ROLLS]]
       /\ original_teams' = [original_teams EXCEPT
              ![g] = LET e == captain_draft_state'[g].pairs[
                                  captain_draft_state'[g].index + 1]
                     IN <<e[1], e[2]>>]
       /\ draft_streak' = [draft_streak EXCEPT ![g] = Bump(@)]
       /\ streak' = [streak EXCEPT ![g] = -1]
       /\ gens' = [gens EXCEPT ![g] = 0]
       /\ last' = Ev("reroll", g, <<>>, "immortal", original_teams'[g])
       /\ UNCHANGED <<team_rolls, roll_count>>

FB_RecycleImmortal(g, u) ==
    IF ~captain_draft_state[g].has /\ ~RatingsAreInts(lobby_players[g])
    THEN /\ last' = Ev("reroll", g, <<>>, "raised", <<>>)
         /\ UNCHANGED cursor_vars
         /\ EndStreak(g)
    ELSE LET pairs == IF captain_draft_state[g].has
                      THEN captain_draft_state[g].pairs
                      ELSE get_all_captain_pairs(lobby_players[g])
             old == IF captain_draft_state[g].has
                    THEN captain_draft_state[g].index ELSE 0
         IN /\ captain_draft_state' = [captain_draft_state EXCEPT
                   ![g] = [has |-> TRUE, pairs |-> pairs,
                           index |-> (old + 1) % (IMMORTAL_MAX_ROLLS + 1)]]
            /\ original_teams' = [original_teams EXCEPT
                   ![g] = LET e == captain_draft_state'[g].pairs[
                                       captain_draft_state'[g].index + 1]
                          IN <<e[1], e[2]>>]
            /\ draft_streak' = [draft_streak EXCEPT ![g] = Bump(@)]
            /\ streak' = [streak EXCEPT ![g] = -1]
            /\ gens' = [gens EXCEPT ![g] = 0]
            /\ last' = Ev("reroll", g, <<>>, "immortal", original_teams'[g])
            /\ UNCHANGED <<team_rolls, roll_count>>

\* a reroll that is accepted on every roster of 10 or more
FB_Recycle_ten_or_more(g, u, is_admin) ==
    /\ FB_Gate(g)
    /\ IF Len(lobby_players[g]) < LOBBY_SIZE
       THEN /\ last' = Ev("reroll", g, <<>>, "ignored", <<>>)
            /\ UNCHANGED cursor_vars
            /\ EndStreak(g)
       ELSE IF ~is_admin
       THEN /\ last' = Ev("reroll", g, <<>>, "denied", <<>>)
            /\ UNCHANGED cursor_vars
            /\ EndStreak(g)
       ELSE IF ModeOf(g) = "regular"
       THEN FB_RecycleRegular(g, u)
       ELSE FB_RecycleImmortal(g, u)
    /\ UNCHANGED <<program, lobby_players, lobby_message, mode_vars,
                   rating_vars, pure_vars, bet_vars, task_vars, service_vars>>

FB_Recycle(g, u, is_admin) ==
    /\ FB_Gate(g)
    /\ IF Len(lobby_players[g]) # LOBBY_SIZE
       THEN /\ last' = Ev("reroll", g, <<>>, "ignored", <<>>)
            /\ UNCHANGED cursor_vars
            /\ EndStreak(g)
       ELSE IF ~is_admin
       THEN /\ last' = Ev("reroll", g, <<>>, "denied", <<>>)
            /\ UNCHANGED cursor_vars
            /\ EndStreak(g)
       ELSE IF ModeOf(g) = "regular"
       THEN FB_RecycleRegular(g, u)
       ELSE FB_RecycleImmortal(g, u)
    /\ UNCHANGED <<program, lobby_players, lobby_message, mode_vars,
                   rating_vars, pure_vars, bet_vars, task_vars, service_vars>>

FB_add_to_lobby(g, members) ==
    /\ program = "FeederBot"
    /\ members # <<>>
    /\ IF Len(lobby_players[g]) >= LOBBY_SIZE
       THEN /\ last' = Ev("add", g, members, "full", <<>>)
            /\ UNCHANGED <<lobby_players, inhouse_mode>>
       ELSE /\ lobby_players' = [lobby_players EXCEPT
                   ![g] = FB_AddMembers(@, members)]
            /\ IF lobby_players'[g] # lobby_players[g]
               THEN /\ inhouse_mode' = update_lobby_embed(g)
                    /\ last' = Ev("add", g, members, "ok", <<>>)
               ELSE /\ last' = Ev("add", g, members, "none", <<>>)
                    /\ UNCHANGED inhouse_mode
    /\ UNCHANGED <<program, lobby_message, mode_store, cursor_vars,
                   rating_vars, pure_vars, bet_vars, task_vars, service_vars>>
    /\ EndStreak(g)

FB_remove_from_lobby(g, members) ==
    /\ program = "FeederBot"
    /\ members # <<>>
    /\ lobby_players' = [lobby_players EXCEPT ![g] = RemoveMembers(@, members)]
    /\ IF lobby_players'[g] = lobby_players[g]
       THEN /\ last' = Ev("remove", g, members, "none", <<>>)
            /\ UNCHANGED inhouse_mode
       ELSE IF lobby_message[g] = "None"
       THEN \* lobby_message[guild_id] raises KeyError after the deletions
            /\ last' = Ev("remove", g, members, "raised", <<>>)
            /\ UNCHANGED inhouse_mode
       ELSE /\ last' = Ev("remove", g, members, "ok", <<>>)
            /\ inhouse_mode' = IF Len(lobby_players'[g]) < LOBBY_SIZE
                               THEN update_lobby_embed(g) ELSE inhouse_mode
    /\ UNCHANGED <<program, lobby_message, mode_store, cursor_vars,
                   rating_vars, pure_vars, bet_vars, task_vars, service_vars>>
    /\ EndStreak(g)

\* mode is "None" when the command has no argument
FB_lobby_cmd(g, mode, authorized) ==
    /\ program = "FeederBot"
    /\ IF mode # "None" /\ ~authorized
       THEN /\ last' = Ev("lobby", g, <<>>, "denied", <<>>)
            /\ UNCHANGED <<lobby_message, mode_vars>>
       ELSE /\ mode_store' = [mode_store EXCEPT
                   ![g] = IF mode = "None" THEN @
                          ELSE IF mode \in {"regular", "immortal"} THEN mode
                          ELSE "regular"]
            /\ inhouse_mode' = [inhouse_mode EXCEPT ![g] = mode_store'[g]]
            /\ lobby_message' = [lobby_message EXCEPT ![g] = "msg"]
            /\ last' = Ev("lobby", g, <<>>, "ok", <<>>)
    /\ UNCHANGED <<program, lobby_players, cursor_vars, rating_vars, pure_vars, bet_vars, task_vars, service_vars>>
    /\ EndStreak(g)

\* a slip: reset empties the roster of every guild
FB_reset_every_guild(g) ==
    /\ program = "FeederBot"
    /\ lobby_players' = [x \in Guilds |-> <<>>]
    /\ inhouse_mode' = build_lobby_embed(g)
    /\ lobby_message' = [lobby_message EXCEPT ![g] = "msg"]
    /\ last' = Ev("reset", g, <<>>, "ok", <<>>)
    /\ UNCHANGED <<program, mode_store, cursor_vars, rating_vars, pure_vars, bet_vars, task_vars, service_vars>>
    /\ EndStreak(g)

FB_reset(g) ==
    /\ program = "FeederBot"
    /\ lobby_players' = [lobby_players EXCEPT ![g] = <<>>]
    /\ inhouse_mode' = build_lobby_embed(g)
    /\ lobby_message' = [lobby_message EXCEPT ![g] = "msg"]
    /\ last' = Ev("reset", g, <<>>, "ok", <<>>)
    /\ UNCHANGED <<program, mode_store, cursor_vars, rating_vars, pure_vars, bet_vars, task_vars, service_vars>>
    /\ EndStreak(g)

\* !cfg <steam_id> [member]
FB_cfg_cmd(g, author, target, authorized, rank) ==
    /\ program = "FeederBot"
    /\ IF target # author /\ ~authorized
       THEN /\ last' = Ev("cfg", g, <<target>>, "denied", <<>>)
            /\ UNCHANGED player_db
       ELSE LET got == fetch_mmr_from_stratz(FB_season_rank_to_mmr, rank)
                mmr == IF /\ got.mmr = NoneMmr
                          /\ got.season_rank # NoneRank
                          /\ got.season_rank # 0
                          /\ got.season_rank >= 80
                       THEN 5650 ELSE got.mmr
            IN /\ player_db' = [player_db EXCEPT ![target] = Doc(mmr)]
               /\ last' = Ev("cfg", g, <<target>>, "ok", <<>>)
    /\ UNCHANGED <<program, lobby_players, lobby_message, mode_vars,
                   cursor_vars, pure_vars, bet_vars, task_vars, service_vars>>
    /\ EndStreak(g)

\* a slip: setmmr also rewrites the member's roster entry
FB_setmmr_updates_roster(g, authorized, mmr, member) ==
    /\ program = "FeederBot"
    /\ IF authorized
       THEN /\ player_db' = [player_db EXCEPT ![member] = MergeMmr(@, mmr)]
            /\ lobby_players' = [lobby_players EXCEPT ![g] =
                   [i \in DOMAIN @ |->
                       IF @[i][1] = member THEN Player(member, mmr) ELSE @[i]]]
            /\ last' = Ev("setmmr", g, <<member>>, "ok", <<>>)
       ELSE /\ last' = Ev("setmmr", g, <<member>>, "denied", <<>>)
            /\ UNCHANGED <<player_db, lobby_players>>
    /\ UNCHANGED <<program, lobby_message, mode_vars, cursor_vars, pure_vars, bet_vars, task_vars, service_vars>>
    /\ EndStreak(g)

\* !setmmr <mmr> <member>, for admins and the Inhouse Admin role
FB_setmmr(g, authorized, mmr, member) ==
    /\ program = "FeederBot"
    /\ IF authorized
       THEN /\ player_db' = [player_db EXCEPT ![member] = MergeMmr(@, mmr)]
            /\ last' = Ev("setmmr", g, <<member>>, "ok", <<>>)
       ELSE /\ last' = Ev("setmmr", g, <<member>>, "denied", <<>>)
            /\ UNCHANGED player_db
    /\ UNCHANGED <<program, lobby_players, lobby_message, mode_vars,
                   cursor_vars, pure_vars, bet_vars, task_vars, service_vars>>
    /\ EndStreak(g)

update_all_lobbies ==
    [g \in Guilds |-> update_lobby_embed(g)[g]]

\* the 24-hour task; fetched[u] is the season rank STRATZ answers for u
FB_refresh_all_mmrs(fetched) ==
    /\ program = "FeederBot"
    /\ player_db' = Refreshed(FB_season_rank_to_mmr, fetched)
    /\ inhouse_mode' = update_all_lobbies
    /\ last' = Ev("refresh", TheGuild, <<>>, "ok", <<>>)
    /\ UNCHANGED <<program, lobby_players, lobby_message, mode_store,
                   cursor_vars, pure_vars, bet_vars, task_vars, service_vars>>
    /\ EndEveryStreak

(***************************************************************************)
(* The lobby protocol of either bot, over ratings that were stored before. *)
(***************************************************************************)
\* users 1..CoreSize have a stored rating, the reactors have none
StoredMmr(u) == 1000 + ((u * 7) % 11) * 300

InitLobby(G) ==
    /\ program \in {"ArmanBotty", "FeederBot"}
    /\ player_db = [u \in Users |->
                       IF u <= CoreSize THEN Doc(StoredMmr(u)) ELSE NoDoc]
    /\ lobby_players = [g \in G |-> <<>>]
    /\ lobby_message = [g \in G |-> "None"]
    /\ inhouse_mode = [g \in G |-> "absent"]
    /\ mode_store \in [G -> IF program = "FeederBot"
                              THEN {"regular", "immortal"} ELSE {"regular"}]
    /\ roll_count = [g \in G |-> 0]
    /\ team_rolls = [g \in G |-> <<>>]
    /\ original_teams = [g \in G |-> <<>>]
    /\ captain_draft_state = [g \in G |-> NoDraft]
    /\ last = Ev("start", TheGuild, <<>>, "ok", <<>>)
    /\ streak = [g \in G |-> -1]
    /\ draft_streak = [g \in G |-> -1]
    /\ gens = [g \in G |-> 0]
    /\ players = <<>>
    /\ ret = NoCall
    /\ NoBets
    /\ NoTasks
    /\ NoServices

Init == InitLobby({TheGuild})

\* The events of the lobby protocol: the bulk add of the core users, the
\* reactions of the reactors, one remove, reset, generate and reroll.
ABThumbsUp == \E g \in Guilds, u \in Reactors : AB_ThumbsUp(g, u)
ABThumbsDown == \E g \in Guilds, u \in Reactors : AB_ThumbsDown(g, u)
ABRocket == \E g \in Guilds : AB_Rocket(g, CoreSize + 1)
ABRecycle == \E g \in Guilds, a \in BOOLEAN : AB_Recycle(g, 1, a)
ABAdd == \E g \in Guilds : AB_add_to_lobby(g, Core)
ABRemove == \E g \in Guilds : AB_remove_from_lobby(g, <<CoreSize + 1>>)
ABLobby == \E g \in Guilds : AB_lobby_cmd(g)
ABReset == \E g \in Guilds : AB_reset(g)
FBThumbsUp == \E g \in Guilds, u \in Reactors : FB_ThumbsUp(g, u)
FBThumbsDown == \E g \in Guilds, u \in Reactors : FB_ThumbsDown(g, u)
FBRocket == \E g \in Guilds : FB_Rocket(g, CoreSize + 1)
FBRecycle == \E g \in Guilds, a \in BOOLEAN : FB_Recycle(g, 1, a)
FBAdd == \E g \in Guilds : FB_add_to_lobby(g, Core)
FBRemove == \E g \in Guilds : FB_remove_from_lobby(g, <<CoreSize + 1>>)
FBLobby == \E g \in Guilds : FB_lobby_cmd(g, "None", TRUE)
FBReset == \E g \in Guilds : FB_reset(g)

Next ==
    \/ ABThumbsUp \/ ABThumbsDown \/ ABRocket \/ ABRecycle
    \/ ABAdd \/ ABRemove \/ ABLobby \/ ABReset
    \/ FBThumbsUp \/ FBThumbsDown \/ FBRocket \/ FBRecycle
    \/ FBAdd \/ FBRemove \/ FBLobby \/ FBReset

Spec == Init /\ [][Next]_vars

(***************************************************************************)
(* The roster under every join, leave, add, remove and reset.              *)
(***************************************************************************)
ABAddAny == \E g \in Guilds, m \in AddArgs : AB_add_to_lobby(g, m)
ABRemoveAny == \E g \in Guilds, m \in RemoveArgs : AB_remove_from_lobby(g, m)
FBAddAny == \E g \in Guilds, m \in AddArgs : FB_add_to_lobby(g, m)
FBRemoveAny == \E g \in Guilds, m \in RemoveArgs : FB_remove_from_lobby(g, m)
\* !lobby with or without a mode argument, by an admin or by anyone
FBLobbyMode ==
    \E g \in Guilds, mode \in {"None", "regular", "immortal", "turbo"},
       a \in BOOLEAN :
        FB_lobby_cmd(g, mode, a)

NextRoster ==
    \/ ABThumbsUp \/ ABThumbsDown \/ ABAddAny \/ ABRemoveAny
    \/ ABLobby \/ ABReset
    \/ FBThumbsUp \/ FBThumbsDown \/ FBAddAny \/ FBRemoveAny
    \/ FBLobbyMode \/ FBReset

SpecRoster == Init /\ [][NextRoster]_vars

(***************************************************************************)
(* The ratings: cfg and setmmr on the reactors, who then join and leave.   *)
(***************************************************************************)
\* the seasonRank answers of STRATZ and the arguments of setmmr
CfgRanks == {NoneRank, 0, 11, 80}
SetMmrArgs == {-50, 0, 2500}

InitMmr ==
    /\ program \in {"ArmanBotty", "FeederBot"}
    /\ player_db = [u \in Users |-> NoDoc]
    /\ lobby_players = [g \in {TheGuild} |-> <<>>]
    /\ lobby_message = [g \in {TheGuild} |-> "None"]
    /\ inhouse_mode = [g \in {TheGuild} |-> "absent"]
    /\ mode_store = [g \in {TheGuild} |-> "regular"]
    /\ roll_count = [g \in {TheGuild} |-> 0]
    /\ team_rolls = [g \in {TheGuild} |-> <<>>]
    /\ original_teams = [g \in {TheGuild} |-> <<>>]
    /\ captain_draft_state = [g \in {TheGuild} |-> NoDraft]
    /\ last = Ev("start", TheGuild, <<>>, "ok", <<>>)
    /\ streak = [g \in {TheGuild} |-> -1]
    /\ draft_streak = [g \in {TheGuild} |-> -1]
    /\ gens = [g \in {TheGuild} |-> 0]
    /\ players = <<>>
    /\ ret = NoCall
    /\ NoBets
    /\ NoTasks
    /\ NoServices

ABCfg == \E g \in Guilds, u \in Reactors, r \in CfgRanks : AB_cfg_cmd(g, u, r)
ABSetMmr ==
    \E g \in Guilds, a \in BOOLEAN, m \in SetMmrArgs, u \in Reactors :
        AB_set_mmr(g, a, m, u)
FBCfg ==
    \E g \in Guilds, author \in {1, CoreSize + 1}, a \in BOOLEAN,
       r \in CfgRanks :
        FB_cfg_cmd(g, author, CoreSize + 1, a, r)
FBSetMmr ==
    \E g \in Guilds, a \in BOOLEAN, m \in SetMmrArgs, u \in Reactors :
        FB_setmmr(g, a, m, u)

NextMmr ==
    \/ ABCfg \/ ABSetMmr \/ ABThumbsUp \/ ABThumbsDown \/ ABLobby
    \/ FBCfg \/ FBSetMmr \/ FBThumbsUp \/ FBThumbsDown \/ FBLobby

SpecMmr == InitMmr /\ [][NextMmr]_vars

(***************************************************************************)
(* The enumerators called directly on a roster of 10 participants with     *)
(* distinct identities: every arrangement of five ratings of 1000 and five *)
(* of 5000, all ratings equal, and rosters of mixed ratings with ties.     *)
(***************************************************************************)
\* the identity at roster position i (not in ascending order)
PureId(i) == ((i * 3) % 11) + 100
PureBase == <<2541, 77, 4081, 2541, 3157, 0, 5650>>
PureTail == {0, 77, 2500, 5650}

PureRosters ==
    {[i \in 1..LOBBY_SIZE |->
         Player(PureId(i), IF i \in S THEN 5000 ELSE 1000)] :
       S \in {T \in SUBSET (1..LOBBY_SIZE) : Cardinality(T) \in {0, TEAM_SIZE}}}
    \cup
    {[i \in 1..LOBBY_SIZE |->
         Player(PureId(i), IF i <= Len(PureBase) THEN PureBase[i] ELSE f[i])] :
       f \in [(Len(PureBase) + 1)..LOBBY_SIZE -> PureTail]}

InitPure ==
    /\ program = "FeederBot"
    /\ player_db = [u \in Users |-> NoDoc]
    /\ lobby_players = [g \in {TheGuild} |-> <<>>]
    /\ lobby_message = [g \in {TheGuild} |-> "None"]
    /\ inhouse_mode = [g \in {TheGuild} |-> "absent"]
    /\ mode_store = [g \in {TheGuild} |-> "regular"]
    /\ roll_count = [g \in {TheGuild} |-> 0]
    /\ team_rolls = [g \in {TheGuild} |-> <<>>]
    /\ original_teams = [g \in {TheGuild} |-> <<>>]
    /\ captain_draft_state = [g \in {TheGuild} |-> NoDraft]
    /\ last = Ev("start", TheGuild, <<>>, "ok", <<>>)
    /\ streak = [g \in {TheGuild} |-> -1]
    /\ draft_streak = [g \in {TheGuild} |-> -1]
    /\ gens = [g \in {TheGuild} |-> 0]
    /\ players \in PureRosters
    /\ ret = NoCall
    /\ NoBets
    /\ NoTasks
    /\ NoServices

lobby_vars == <<program, player_db, lobby_players, lobby_message, inhouse_mode,
                mode_store, roll_count, team_rolls, original_teams,
                captain_draft_state, last, streak, draft_streak, gens>>

CallBalancedTeams ==
    /\ ret = NoCall
    /\ ret' = [fn |-> "calculate_balanced_teams",
               val |-> calculate_balanced_teams(players)]
    /\ UNCHANGED <<players, lobby_vars, bet_vars, task_vars, service_vars>>

CallCaptainPairs ==
    /\ ret = NoCall
    /\ ret' = [fn |-> "get_all_captain_pairs",
               val |-> get_all_captain_pairs(players)]
    /\ UNCHANGED <<players, lobby_vars, bet_vars, task_vars, service_vars>>

NextPure == CallBalancedTeams \/ CallCaptainPairs

SpecPure == InitPure /\ [][NextPure]_vars

(***************************************************************************)
(* What the enumerators return.                                            *)
(***************************************************************************)
Balanced == ret.fn = "calculate_balanced_teams"
Paired == ret.fn = "get_all_captain_pairs"

\* no identity occurs twice in the roster
DistinctIds(roster) ==
    \A i, j \in 1..Len(roster) : roster[i][1] = roster[j][1] => i = j

\* a (team1, team2) pair splits the roster into two teams of 5
IsSplit(pair, roster) ==
    /\ Len(pair[1]) = 5 /\ Len(pair[2]) = 5
    /\ SeqToSet(pair[1]) \cap SeqToSet(pair[2]) = {}
    /\ SeqToSet(pair[1]) \cup SeqToSet(pair[2]) = SeqToSet(roster)
    /\ Cardinality(SeqToSet(pair[1])) = 5 /\ Cardinality(SeqToSet(pair[2])) = 5

\* C1: for a roster of exactly 10 participants with distinct identities,
\* calculate_balanced_teams returns exactly 252 (team1, team2) pairs, and in
\* every pair the teams hold 5 participants each, share none, and together
\* are the 10 of the roster.
C1_Splits ==
    (Balanced /\ Len(players) = 10 /\ DistinctIds(players)) =>
        /\ Len(ret.val) = 252
        /\ \A k \in 1..Len(ret.val) : IsSplit(ret.val[k], players)

C1_Witness ==
    /\ Balanced /\ Len(players) = 10 /\ DistinctIds(players)
    /\ \E i, j \in 1..10 : i # j /\ players[i][3] = players[j][3]
    /\ Len(ret.val) = 252

RECURSIVE SetSum(_, _)
\* the sum of the ratings at the roster positions in S
SetSum(roster, S) ==
    IF S = {} THEN 0
    ELSE LET i == CHOOSE x \in S : TRUE
         IN roster[i][3] + SetSum(roster, S \ {i})

\* five times |avg1 - avg2| of an alternative: the averages are over five
\* participants each, so the order by it is the order by |avg1 - avg2|
AvgGap5(pair) == Abs(SumMmr(pair[1]) - SumMmr(pair[2]))

\* the same quantity for every way of choosing five roster positions
AllGaps5(roster) ==
    {Abs(SetSum(roster, S) - SetSum(roster, (1..Len(roster)) \ S)) :
       S \in {T \in SUBSET (1..Len(roster)) : Cardinality(T) = 5}}

\* the captains' absolute rating difference of a captain-pair entry
CaptainGap(entry) == Abs(entry[1][1][3] - entry[1][2][3])

AllCaptainGaps(roster) ==
    {Abs(roster[ij[1]][3] - roster[ij[2]][3]) :
       ij \in {xy \in (1..Len(roster)) \X (1..Len(roster)) : xy[1] < xy[2]}}

\* C2: the list calculate_balanced_teams returns is in non-decreasing order of
\* |avg1 - avg2| and the list get_all_captain_pairs returns is in
\* non-decreasing order of the captains' absolute rating difference; the first
\* element of each attains the minimum over all 5v5 splits, respectively over
\* all captain pairs, of the roster.
C2_Sorted ==
    /\ Balanced =>
          /\ \A k \in 1..(Len(ret.val) - 1) :
                 AvgGap5(ret.val[k]) <= AvgGap5(ret.val[k + 1])
          /\ \A d \in AllGaps5(players) : AvgGap5(ret.val[1]) <= d
    /\ Paired =>
          /\ \A k \in 1..(Len(ret.val) - 1) :
                 /\ CaptainGap(ret.val[k]) <= CaptainGap(ret.val[k + 1])
                 /\ ret.val[k][3] = CaptainGap(ret.val[k])
          /\ \A d \in AllCaptainGaps(players) : CaptainGap(ret.val[1]) <= d

C2_Witness ==
    /\ Balanced
    /\ AvgGap5(ret.val[1]) > 0
    /\ AvgGap5(ret.val[1]) < AvgGap5(ret.val[Len(ret.val)])
    /\ \E k \in 1..Len(team_pairs(players)) :
          team_pairs(players)[k][1] < team_pairs(players)[1][1]

\* C3: get_all_captain_pairs returns exactly 45 entries, one for every
\* unordered pair of distinct participants; in every entry the 2 captains and
\* the 8 pool participants share nobody and together are the 10 of the roster.
C3_CaptainPairs ==
    (Paired /\ Len(players) = 10 /\ DistinctIds(players)) =>
        /\ Len(ret.val) = 45
        /\ \A a, b \in SeqToSet(players) :
              a # b => Cardinality({k \in 1..Len(ret.val) :
                                     SeqToSet(ret.val[k][1]) = {a, b}}) = 1
        /\ \A k \in 1..Len(ret.val) :
              /\ Len(ret.val[k][1]) = 2 /\ Len(ret.val[k][2]) = 8
              /\ Cardinality(SeqToSet(ret.val[k][1])) = 2
              /\ Cardinality(SeqToSet(ret.val[k][2])) = 8
              /\ SeqToSet(ret.val[k][1]) \cap SeqToSet(ret.val[k][2]) = {}
              /\ SeqToSet(ret.val[k][1]) \cup SeqToSet(ret.val[k][2])
                    = SeqToSet(players)

C3_Witness ==
    /\ Paired /\ Len(players) = 10 /\ DistinctIds(players)
    /\ CaptainGap(ret.val[1]) = 0
    /\ Len(ret.val) = 45

(***************************************************************************)
(* What a reroll displays.                                                 *)
(***************************************************************************)
\* the last event was a reroll that put an alternative on the lobby message
RerollShown == last.op = "reroll" /\ last.shown # <<>>
RegularReroll == last.op = "reroll" /\ last.res = "regular"
DraftReroll == last.op = "reroll" /\ last.res = "immortal"

\* the participants of a displayed alternative
ShownMembers(shown) == SeqToSet(shown[1]) \cup SeqToSet(shown[2])

\* the ranked splits of the roster as it is now
Ranked(g) == calculate_balanced_teams(lobby_players[g])

\* the top-ranked captain pairing of the roster as it is now
TopPairing(g) ==
    LET e == get_all_captain_pairs(lobby_players[g])[1] IN <<e[1], e[2]>>

\* C4: every alternative that a reroll displays (regular split or captain
\* pairing) is made up of exactly the 10 participants that are in the roster
\* at the time of that reroll.
C4_RerollShowsRoster ==
    RerollShown =>
        /\ ShownMembers(last.shown) = SeqToSet(lobby_players[last.g])
        /\ Len(last.shown[1]) + Len(last.shown[2]) = 10

\* C5 as stated: in regular mode, starting from a generate, after MAX_ROLLS
\* (5) rerolls the next reroll resets roll_count to 1 and displays the
\* top-ranked split.
C5_ResetAfterMaxRolls ==
    \A g \in Guilds :
        (RegularReroll /\ streak[g] = MAX_ROLLS + 1) =>
            /\ roll_count[g] = 1
            /\ last.shown = Ranked(g)[1]

\* C5: in regular mode, starting from a generate, after MAX_ROLLS - 1 (4)
\* rerolls the next reroll resets roll_count to 1 and displays the top-ranked
\* split.
C5_ResetAfterMaxRollsLessOne ==
    \A g \in Guilds :
        (RegularReroll /\ streak[g] = MAX_ROLLS) =>
            /\ roll_count[g] = 1
            /\ last.shown = Ranked(g)[1]

C5_Witness ==
    /\ RegularReroll
    /\ streak[last.g] = MAX_ROLLS
    /\ roll_count[last.g] = 1
    /\ last.shown # <<>>

\* C6: in regular mode the k-th consecutive reroll after a generate
\* (1 <= k < MAX_ROLLS) is made while roll_count < MAX_ROLLS, increments
\* roll_count to k + 1 and displays the (k+1)-th ranked split, in ArmanBotty
\* and in FeederBot.
C6_RerollAdvances ==
    \A g \in Guilds :
        (RegularReroll /\ streak[g] \in 1..(MAX_ROLLS - 1)) =>
            /\ roll_count[g] = streak[g] + 1
            /\ last.shown = Ranked(g)[roll_count[g]]

\* the index of every captain draft is in 0..IMMORTAL_MAX_ROLLS and within
\* the 45 entries of its pair list
C7_IndexInRange ==
    \A g \in Guilds :
        captain_draft_state[g].has =>
            /\ captain_draft_state[g].index \in 0..IMMORTAL_MAX_ROLLS
            /\ Len(captain_draft_state[g].pairs) = 45
            /\ captain_draft_state[g].index < Len(captain_draft_state[g].pairs)

\* an accepted captain-draft reroll steps the index (0 when the guild had no
\* draft yet) modulo IMMORTAL_MAX_ROLLS + 1 and displays pairs[index]
C7_Step ==
    \A g \in Guilds :
        (last'.op = "reroll" /\ last'.res = "immortal" /\ last'.g = g) =>
            LET old == IF captain_draft_state[g].has
                       THEN captain_draft_state[g].index ELSE 0
                new == captain_draft_state'[g]
            IN /\ new.has
               /\ new.index = (old + 1) % (IMMORTAL_MAX_ROLLS + 1)
               /\ last'.shown = <<new.pairs[new.index + 1][1],
                                  new.pairs[new.index + 1][2]>>

\* the 4th consecutive reroll after a generate displays the top-ranked pairing
C7_BackToTop ==
    \A g \in Guilds :
        (DraftReroll /\ draft_streak[g] = IMMORTAL_MAX_ROLLS + 1) =>
            /\ captain_draft_state[g].index = 0
            /\ last.shown = TopPairing(g)

\* C7: in captain-draft (immortal) mode every accepted reroll sets index to
\* (index + 1) mod (IMMORTAL_MAX_ROLLS + 1) and displays pairs[index]; the
\* index is always in 0..3 and within the 45-entry pair list; exactly 4
\* rerolls after a generate bring the display back to the top-ranked pair.
C7_DraftRotation ==
    /\ []C7_IndexInRange
    /\ [][C7_Step]_vars
    /\ []C7_BackToTop

C7_Witness ==
    /\ DraftReroll
    /\ draft_streak[last.g] = IMMORTAL_MAX_ROLLS + 1
    /\ captain_draft_state[last.g].index = 0

(***************************************************************************)
(* The roster.                                                             *)
(***************************************************************************)
\* C8: a roster never holds more than 10 participants, after any sequence of
\* joins, adds of one or several members, leaves, removes and resets.
C8_AtMostTen ==
    \A g \in Guilds : Len(lobby_players[g]) \in 0..LOBBY_SIZE

\* C9: no two entries of a roster have the same user identity, after any
\* sequence of joins, adds (also one naming the same member twice), leaves,
\* removes and resets.
C9_UniqueIds ==
    \A g \in Guilds : DistinctIds(lobby_players[g])

C9_Witness ==
    /\ last.op = "add" /\ last.res = "ok"
    /\ \E i, j \in 1..Len(last.arg) : i # j /\ last.arg[i] = last.arg[j]
    /\ HasUid(lobby_players[last.g], last.arg[1])

\* C10: every participant stored in a roster has an integer rating >= 0,
\* whatever happened to the user's stored rating before the join (never
\* configured, a cfg that stored none, a setmmr with any integer).
C10_RatingsNonNegative ==
    \A g \in Guilds :
        \A i \in 1..Len(lobby_players[g]) :
            /\ lobby_players[g][i][3] # NoneMmr
            /\ lobby_players[g][i][3] >= 0

(***************************************************************************)
(* Requests that the lobby is not ready for.                               *)
(***************************************************************************)
\* no generate and no reroll has written the rotation state of guild g
Pristine(g) ==
    /\ roll_count[g] = 0
    /\ team_rolls[g] = <<>>
    /\ ~captain_draft_state[g].has

\* the step is a reroll of guild g by an admin on a roster of 10
AdminRerollStep(g) ==
    /\ last'.op = "reroll" /\ last'.g = g
    /\ last'.res \notin {"ignored", "denied"}

\* C11: a reroll request made by an admin on a full roster for which no
\* generate has happened yet is a no-op: it changes neither the roll count nor
\* the cached ranked list or captain-draft state, and displays no alternative.
C11_RerollBeforeGenerate ==
    [][\A g \in Guilds :
          (AdminRerollStep(g) /\ Pristine(g)) =>
              /\ roll_count'[g] = roll_count[g]
              /\ team_rolls'[g] = team_rolls[g]
              /\ captain_draft_state'[g] = captain_draft_state[g]
              /\ last'.shown = <<>>]_vars

\* the step is a generate or reroll request of guild g
RotationRequestStep(g) ==
    last'.op \in {"generate", "reroll"} /\ last'.g = g

\* C12: a generate or reroll request that arrives while the roster size is
\* not exactly 10 raises no error and leaves the roster, the roll count, the
\* cached ranked list, the captain-draft state and the displayed teams
\* unchanged.
C12_NotTenIgnored ==
    [][\A g \in Guilds :
          (RotationRequestStep(g) /\ Len(lobby_players[g]) # 10) =>
              /\ last'.res # "raised"
              /\ last'.shown = <<>>
              /\ lobby_players'[g] = lobby_players[g]
              /\ roll_count'[g] = roll_count[g]
              /\ team_rolls'[g] = team_rolls[g]
              /\ original_teams'[g] = original_teams[g]
              /\ captain_draft_state'[g] = captain_draft_state[g]]_vars

C12_Witness ==
    /\ last.op \in {"generate", "reroll"}
    /\ last.res = "ignored"
    /\ Len(lobby_players[last.g]) \in {LOBBY_SIZE - 1, LOBBY_SIZE + 1}
    /\ team_rolls[last.g] # <<>>

\* the step is an accepted generate of guild g
GenerateStep(g) ==
    /\ last'.op = "generate" /\ last'.g = g
    /\ last'.res \in {"regular", "immortal"}

\* the event before the step was an accepted generate of guild g
JustGenerated(g) ==
    /\ gens[g] >= 1
    /\ last.op = "generate" /\ last.g = g
    /\ last.res \in {"regular", "immortal"}

\* C13: two generate requests in a row on the same unchanged 10-participant
\* roster display the same top alternative both times, and a generate leaves
\* the roster itself (members, order, ratings) unchanged.
C13_GenerateTwice ==
    [][\A g \in Guilds :
          GenerateStep(g) =>
              /\ lobby_players' = lobby_players
              /\ JustGenerated(g) =>
                    /\ last'.res = last.res
                    /\ last'.shown = last.shown
                    /\ last'.shown = IF last'.res = "regular"
                                     THEN Ranked(g)[1] ELSE TopPairing(g)]_vars

C13_Witness ==
    /\ last.op = "generate"
    /\ last.res \in {"regular", "immortal"}
    /\ gens[last.g] = 2
    /\ last.shown # <<>>

(***************************************************************************)
(* Roster mutations that are rejected.                                     *)
(***************************************************************************)
\* the step is the named request of guild g, in whichever bot runs
JoinStep(g, u) == AB_ThumbsUp(g, u) \/ FB_ThumbsUp(g, u)
LeaveStep(g, u) == AB_ThumbsDown(g, u) \/ FB_ThumbsDown(g, u)
AddStep(g, members) == AB_add_to_lobby(g, members) \/ FB_add_to_lobby(g, members)
RemoveStep(g, members) ==
    AB_remove_from_lobby(g, members) \/ FB_remove_from_lobby(g, members)

AllIn(roster, members) ==
    \A i \in 1..Len(members) : HasUid(roster, members[i])
NoneIn(roster, members) ==
    \A i \in 1..Len(members) : ~HasUid(roster, members[i])

\* C14: a rejected roster mutation leaves the roster's members and order as
\* they were: a join (reaction or add command) by an identity already in the
\* roster, a join reaction on a roster that already has 10 participants, and a
\* leave or remove of an identity that is not in the roster.
C14_RejectedMutation ==
    [][\A g \in Guilds :
          /\ \A u \in Reactors :
                (JoinStep(g, u) /\ HasUid(lobby_players[g], u))
                    => lobby_players'[g] = lobby_players[g]
          /\ \A u \in Reactors :
                (JoinStep(g, u) /\ Len(lobby_players[g]) >= 10)
                    => lobby_players'[g] = lobby_players[g]
          /\ \A m \in AddArgs :
                (AddStep(g, m) /\ AllIn(lobby_players[g], m))
                    => lobby_players'[g] = lobby_players[g]
          /\ \A u \in Reactors :
                (LeaveStep(g, u) /\ ~HasUid(lobby_players[g], u))
                    => lobby_players'[g] = lobby_players[g]
          /\ \A m \in RemoveArgs :
                (RemoveStep(g, m) /\ NoneIn(lobby_players[g], m))
                    => lobby_players'[g] = lobby_players[g]]_vars

(***************************************************************************)
(* Two guilds on one FeederBot.  Guild TheGuild runs the whole protocol;   *)
(* in OtherGuild an admin posts a lobby, adds ten members and generates.   *)
(***************************************************************************)
OtherGuild == TheGuild + 1

InitGuilds ==
    /\ InitLobby({TheGuild, OtherGuild})
    /\ program = "FeederBot"
    \* one guild is configured regular, the other immortal
    /\ mode_store[TheGuild] # mode_store[OtherGuild]

GuildJoin == \E g \in Guilds : g = TheGuild /\ FB_ThumbsUp(g, CoreSize + 1)
GuildAdd == \E g \in Guilds : g = TheGuild /\ FB_add_to_lobby(g, Core)
GuildAddTen == \E g \in Guilds : g = OtherGuild /\ FB_add_to_lobby(g, Core \o <<CoreSize + 1>>)
GuildLobby == \E g \in Guilds : FB_lobby_cmd(g, "None", TRUE)
GuildGenerate == \E g \in Guilds : FB_Rocket(g, CoreSize + 1)
GuildLeave == \E g \in Guilds : g = TheGuild /\ FB_ThumbsDown(g, CoreSize + 1)
GuildRemove == \E g \in Guilds : g = TheGuild /\ FB_remove_from_lobby(g, <<CoreSize + 1>>)
GuildReset == \E g \in Guilds : g = TheGuild /\ FB_reset(g)
GuildReroll == \E g \in Guilds : g = TheGuild /\ FB_Recycle(g, 1, TRUE)

NextGuilds ==
    \/ GuildJoin \/ GuildAdd \/ GuildAddTen \/ GuildLobby \/ GuildGenerate
    \/ GuildLeave \/ GuildRemove \/ GuildReset \/ GuildReroll

SpecGuilds == InitGuilds /\ [][NextGuilds]_vars

\* C15: lobbies are independent: any join, leave, add, remove, reset, lobby,
\* generate or reroll event of guild a leaves the roster, mode, roll count,
\* cached ranked list, captain-draft state and lobby message of every other
\* guild b unchanged.
C15_GuildsIndependent ==
    [][\A a, b \in Guilds :
          (last'.g = a /\ a # b) =>
              /\ lobby_players'[b] = lobby_players[b]
              /\ inhouse_mode'[b] = inhouse_mode[b]
              /\ mode_store'[b] = mode_store[b]
              /\ roll_count'[b] = roll_count[b]
              /\ team_rolls'[b] = team_rolls[b]
              /\ original_teams'[b] = original_teams[b]
              /\ captain_draft_state'[b] = captain_draft_state[b]
              /\ lobby_message'[b] = lobby_message[b]]_vars

C15_Witness ==
    /\ last.op = "reset" /\ last.g = TheGuild
    /\ lobby_players[TheGuild] = <<>>
    /\ Len(lobby_players[OtherGuild]) = 10
    /\ original_teams[OtherGuild] # <<>>
    /\ lobby_message[OtherGuild] = "msg"

(***************************************************************************)
(* The lobby protocol of either bot while stored ratings change: an admin  *)
(* sets the rating of member 1, user CoreSize + 1 links a steam account,   *)
(* and the periodic refresh fetches a new rank for that account.           *)
(***************************************************************************)
\* STRATZ answers for one account, every other request fails
RefreshAnswers ==
    {[u \in Users |-> IF u = CoreSize + 1 THEN r ELSE NoneRank] :
        r \in {NoneRank, 42}}

ABJoinLate == \E g \in Guilds : AB_ThumbsUp(g, CoreSize + 1)
ABLeaveLate == \E g \in Guilds : AB_ThumbsDown(g, CoreSize + 1)
ABRerollLate == \E g \in Guilds : AB_Recycle(g, 1, FALSE)
ABSetMmrLate == \E g \in Guilds : AB_set_mmr(g, TRUE, 2500, 1)
ABCfgLate == \E g \in Guilds : AB_cfg_cmd(g, CoreSize + 1, 11)
ABRefresh ==
    \E g \in Guilds, f \in RefreshAnswers : g = TheGuild /\ AB_refresh_all_mmrs(f)
FBJoinLate == \E g \in Guilds : FB_ThumbsUp(g, CoreSize + 1)
FBLeaveLate == \E g \in Guilds : FB_ThumbsDown(g, CoreSize + 1)
FBRerollLate == \E g \in Guilds : FB_Recycle(g, 1, FALSE)
FBSetMmrLate == \E g \in Guilds : FB_setmmr(g, TRUE, 2500, 1)
FBCfgLate ==
    \E g \in Guilds : FB_cfg_cmd(g, CoreSize + 1, CoreSize + 1, FALSE, 11)
FBRefresh ==
    \E g \in Guilds, f \in RefreshAnswers : g = TheGuild /\ FB_refresh_all_mmrs(f)

NextLate ==
    \/ ABAdd \/ ABLobby \/ ABJoinLate \/ ABLeaveLate \/ ABRocket
    \/ ABRerollLate \/ ABSetMmrLate \/ ABCfgLate \/ ABRefresh
    \/ FBAdd \/ FBLobby \/ FBJoinLate \/ FBLeaveLate \/ FBRocket
    \/ FBRerollLate \/ FBSetMmrLate \/ FBCfgLate \/ FBRefresh

SpecLate == Init /\ [][NextLate]_vars

\* the rating get_mmr returns for u in the running bot
StoredNow(u) == IF program = "ArmanBotty" THEN AB_get_mmr(u) ELSE FB_get_mmr(u)

\* the participants an event displayed: two teams, or two captains and
\* the pool they pick from
Displayed(ev) == ShownMembers(ev.shown)

PosIn(roster, p) == CHOOSE i \in 1..Len(roster) : roster[i] = p

\* roster positions of a team, in the team's order
TeamPositions(team) == [i \in 1..Len(team) |-> PosIn(players, team[i])]

LexLess(a, b) ==
    \E i \in 1..Len(a) :
        /\ a[i] < b[i]
        /\ \A j \in 1..(i - 1) : a[j] = b[j]

\* position of p among the participants sorted by ascending rating, equal
\* ratings in roster order
RatingRank(p) ==
    1 + Cardinality({q \in SeqToSet(players) :
                        \/ q[3] < p[3]
                        \/ q[3] = p[3] /\ PosIn(players, q) < PosIn(players, p)})

CaptainPositions(entry) == <<RatingRank(entry[1][1]), RatingRank(entry[1][2])>>

\* C17: ties are broken by enumeration order.  Splits of equal fairness
\* appear in the order in which team1 is generated as a 5-combination of
\* roster positions (lexicographic); captain pairs of equal closeness appear
\* in (i, j), i < j, order over the participants sorted by ascending rating.
C17_TiesInEnumerationOrder ==
    /\ Balanced =>
          \A k \in 1..(Len(ret.val) - 1) :
              AvgGap5(ret.val[k]) = AvgGap5(ret.val[k + 1]) =>
                  LexLess(TeamPositions(ret.val[k][1]),
                          TeamPositions(ret.val[k + 1][1]))
    /\ Paired =>
          \A k \in 1..(Len(ret.val) - 1) :
              /\ CaptainPositions(ret.val[k])[1] < CaptainPositions(ret.val[k])[2]
              /\ CaptainGap(ret.val[k]) = CaptainGap(ret.val[k + 1]) =>
                    LexLess(CaptainPositions(ret.val[k]),
                            CaptainPositions(ret.val[k + 1]))

\* two neighbouring splits of equal fairness that are not each other's mirror
C17_Witness ==
    /\ Balanced
    /\ \E k \in 1..(Len(ret.val) - 1) :
          /\ AvgGap5(ret.val[k]) = AvgGap5(ret.val[k + 1])
          /\ ret.val[k + 1][1] # ret.val[k][2]

\* two neighbouring captain pairs of equal closeness
C17_PairTie ==
    /\ Paired
    /\ \E k \in 1..(Len(ret.val) - 1) :
          CaptainGap(ret.val[k]) = CaptainGap(ret.val[k + 1])

\* the two teams of a result entry as an unordered split
Unordered(pair) == {SeqToSet(pair[1]), SeqToSet(pair[2])}

\* C18: the 252 splits are labelled: for every (A, B) in the result, (B, A)
\* is in the result exactly once, with the same fairness, and each of the
\* 126 unordered splits appears exactly twice.
\* The 252 entries are pairwise different and contain the mirror of each
\* entry, so a mirror appears exactly once; they form 126 unordered splits
\* and each split has at least its two labelled entries, so it has two.
C18_SplitsLabelled ==
    (Balanced /\ Len(players) = 10 /\ DistinctIds(players)) =>
        LET entries == SeqToSet(ret.val)
        IN /\ Len(ret.val) = 252
           /\ Cardinality(entries) = 252
           /\ \A p \in entries :
                 /\ p[1] # p[2]
                 /\ <<p[2], p[1]>> \in entries
                 /\ AvgGap5(<<p[2], p[1]>>) = AvgGap5(p)
           /\ Cardinality({Unordered(p) : p \in entries}) = 126

C18_Witness ==
    /\ Balanced /\ Len(players) = 10 /\ DistinctIds(players)
    /\ \E k \in 2..Len(ret.val) :
          /\ ret.val[k] = <<ret.val[1][2], ret.val[1][1]>>
          /\ k > 2

(***************************************************************************)
(* Generate on two rosters that hold the same participants in different    *)
(* join orders: ret.val holds the result for players and the result for    *)
(* the other order.                                                        *)
(***************************************************************************)
Reverse(s) == [i \in 1..Len(s) |-> s[Len(s) + 1 - i]]
Rotate(s, k) == [i \in 1..Len(s) |-> s[((i + k - 1) % Len(s)) + 1]]

\* other join orders of the same participants
JoinOrders(s) == {Reverse(s), Rotate(s, 3)} \ {s}

BalanceTwoOrders ==
    /\ ret = NoCall
    /\ \E other \in JoinOrders(players) :
          ret' = [fn |-> "calculate_balanced_teams, two orders",
                  val |-> <<calculate_balanced_teams(players),
                            calculate_balanced_teams(other)>>]
    /\ UNCHANGED <<players, lobby_vars, bet_vars, task_vars, service_vars>>

PairTwoOrders ==
    /\ ret = NoCall
    /\ \E other \in JoinOrders(players) :
          ret' = [fn |-> "get_all_captain_pairs, two orders",
                  val |-> <<get_all_captain_pairs(players),
                            get_all_captain_pairs(other)>>]
    /\ UNCHANGED <<players, lobby_vars, bet_vars, task_vars, service_vars>>

NextOrders == BalanceTwoOrders \/ PairTwoOrders

\* rosters of ten different ratings
SpreadRatings == <<3200, 1000, 5800, 1350, 4300, 2500, 6700, 1900, 5000, 3700>>
SpreadRosters ==
    {[i \in 1..LOBBY_SIZE |-> Player(PureId(i), SpreadRatings[i] + d * i)] :
        d \in {0, 40}}

InitOrders ==
    /\ program = "FeederBot"
    /\ player_db = [u \in Users |-> NoDoc]
    /\ lobby_players = [g \in {TheGuild} |-> <<>>]
    /\ lobby_message = [g \in {TheGuild} |-> "None"]
    /\ inhouse_mode = [g \in {TheGuild} |-> "absent"]
    /\ mode_store = [g \in {TheGuild} |-> "regular"]
    /\ roll_count = [g \in {TheGuild} |-> 0]
    /\ team_rolls = [g \in {TheGuild} |-> <<>>]
    /\ original_teams = [g \in {TheGuild} |-> <<>>]
    /\ captain_draft_state = [g \in {TheGuild} |-> NoDraft]
    /\ last = Ev("start", TheGuild, <<>>, "ok", <<>>)
    /\ streak = [g \in {TheGuild} |-> -1]
    /\ draft_streak = [g \in {TheGuild} |-> -1]
    /\ gens = [g \in {TheGuild} |-> 0]
    /\ players \in PureRosters \cup SpreadRosters
    /\ ret = NoCall
    /\ NoBets
    /\ NoTasks
    /\ NoServices

SpecOrders == InitOrders /\ [][NextOrders]_vars

BalancedTwice == ret.fn = "calculate_balanced_teams, two orders"
PairedTwice == ret.fn = "get_all_captain_pairs, two orders"

\* the two captains of a result entry
Captains(entry) == {entry[1][1], entry[1][2]}

\* C19 as stated: two rosters that hold the same 10 participants with the
\* same ratings in different join orders yield the same top-ranked split as
\* an unordered pair of teams and the same top-ranked captain pair.
C19_OrderIrrelevant ==
    /\ BalancedTwice => Unordered(ret.val[1][1]) = Unordered(ret.val[2][1])
    /\ PairedTwice => Captains(ret.val[1][1]) = Captains(ret.val[2][1])

\* C19, amended: in different join orders the top-ranked split has the same
\* fairness and the top-ranked captain pair the same closeness; they are the
\* same split and the same pair when no other split or pair is as good.
C19_SameValueAcrossOrders ==
    /\ BalancedTwice =>
          /\ AvgGap5(ret.val[1][1]) = AvgGap5(ret.val[2][1])
          /\ AvgGap5(ret.val[1][3]) > AvgGap5(ret.val[1][1]) =>
                Unordered(ret.val[1][1]) = Unordered(ret.val[2][1])
    /\ PairedTwice =>
          /\ CaptainGap(ret.val[1][1]) = CaptainGap(ret.val[2][1])
          /\ CaptainGap(ret.val[1][2]) > CaptainGap(ret.val[1][1]) =>
                Captains(ret.val[1][1]) = Captains(ret.val[2][1])

\* one split is better than all others, and both orders put it on top
C19_Witness ==
    /\ BalancedTwice
    /\ AvgGap5(ret.val[1][3]) > AvgGap5(ret.val[1][1])
    /\ ret.val[1][1] # ret.val[2][1]
    /\ Unordered(ret.val[1][1]) = Unordered(ret.val[2][1])

\* one captain pair is closer than all others, and both orders put it on top
C19_PairWitness ==
    /\ PairedTwice
    /\ CaptainGap(ret.val[1][2]) > CaptainGap(ret.val[1][1])
    /\ Captains(ret.val[1][1]) = Captains(ret.val[2][1])

\* the ratings of a team or roster, in its order
Ratings(s) == [i \in 1..Len(s) |-> s[i][3]]

\* how many members of a team have rating r
CountRated(team, r) == Cardinality({i \in 1..Len(team) : team[i][3] = r})

\* five participants of rating 1000 and five of rating 5000, in any order
FiveAndFive ==
    /\ Len(players) = 10
    /\ SeqToSet(Ratings(players)) = {1000, 5000}
    /\ CountRated(players, 1000) = 5

\* one team holds the five 1000s, the other the five 5000s
Homogeneous(pair) ==
    /\ Cardinality(SeqToSet(Ratings(pair[1]))) = 1
    /\ Cardinality(SeqToSet(Ratings(pair[2]))) = 1

\* C20 as stated: for ratings 1000 (five times) and 5000 (five times) the
\* top-ranked split is the two rating-homogeneous groups and its fairness
\* is 0.
C20_HomogeneousOnTop ==
    (Balanced /\ FiveAndFive) =>
        Homogeneous(ret.val[1]) /\ AvgGap5(ret.val[1]) = 0

\* C20, amended: for these ratings the top-ranked split puts two 5000s and
\* three 1000s against three 5000s and two 1000s, with fairness
\* |avg1 - avg2| = 800 (sums 13000 and 17000); the two rating-homogeneous
\* groups are the last-ranked split, with fairness 4000.
C20_MixedOnTop ==
    (Balanced /\ FiveAndFive) =>
        /\ CountRated(ret.val[1][1], 5000) \in {2, 3}
        /\ CountRated(ret.val[1][2], 5000) = 5 - CountRated(ret.val[1][1], 5000)
        /\ AvgGap5(ret.val[1]) = 5 * 800
        /\ \A k \in 1..Len(ret.val) : AvgGap5(ret.val[k]) >= 5 * 800
        /\ Homogeneous(ret.val[Len(ret.val)])
        /\ AvgGap5(ret.val[Len(ret.val)]) = 5 * 4000

\* the roster of the example, in the order it is written
C20_Witness ==
    /\ Balanced
    /\ Ratings(players) =
          <<1000, 1000, 1000, 1000, 1000, 5000, 5000, 5000, 5000, 5000>>
    /\ ~Homogeneous(ret.val[1])
    /\ AvgGap5(ret.val[1]) = 5 * 800

(***************************************************************************)
(* betting_manager.py and the bet command of FeederBot.py.                 *)
(***************************************************************************)
DEFAULT_BALANCE == 1000
\* place_bet is not called again for a user whose balance would pass this
MaxBalance == 1050

\* get_balance(user_id), on the wallets w
get_balance(w, user_id) ==
    IF w[user_id].exists THEN w[user_id].balance ELSE DEFAULT_BALANCE

\* an update_balance that writes the amount over the balance
update_balance_overwrites(w, user_id, amount) ==
    [w EXCEPT ![user_id] = Wallet(amount)]

\* update_balance(user_id, amount): the wallets after it
update_balance(w, user_id, amount) ==
    [w EXCEPT ![user_id] = Wallet(get_balance(w, user_id) + amount)]

\* a place_bet that gives nothing back for the bet it replaces
Refunded_none(user_id, entry) == wallets

\* the wallets once place_bet has refunded the bet found under the entry
Refunded(user_id, entry) ==
    IF entry.exists THEN update_balance(wallets, user_id, entry.amount)
    ELSE wallets

\* place_bet(user_id, team, amount, match_key, nickname)
place_bet(user_id, team, amount, match_key, nickname) ==
    LET id == <<match_key, sanitize(nickname)>>
        refunded == Refunded(user_id, bet_entries[id])
    IN /\ program = "FeederBot"
       /\ IF get_balance(refunded, user_id) < amount
          THEN /\ wallets' = refunded
               /\ UNCHANGED bet_entries
               /\ last' = Ev("place_bet", match_key, <<user_id, amount, team>>,
                             "False", <<>>)
          ELSE /\ wallets' = update_balance(refunded, user_id, 0 - amount)
               /\ bet_entries' = [bet_entries EXCEPT
                      ![id] = BetDoc(user_id, team, amount)]
               /\ last' = Ev("place_bet", match_key, <<user_id, amount, team>>,
                             "True", <<>>)
       /\ get_balance(wallets', user_id) <= MaxBalance
       /\ UNCHANGED <<program, player_db, lobby_players, lobby_message,
                      mode_vars, cursor_vars, pure_vars, guild_bets,
                     task_vars, service_vars>>
       /\ EndStreak(match_key)

\* the arguments of the bet command that are tried: <<amount, team>>
BetArgs == {<<0, "dire">>, <<50, "mid">>, <<100, "Radiant">>, <<10, "dire">>}
\* team.lower() on these teams
LowerTeam(team) == IF team = "Radiant" THEN "radiant" ELSE team

\* !bet <amount> <team>.  After its checks the command calls
\* get_balance(guild_id, ctx.author.id); get_balance takes one argument, so
\* the call raises TypeError and the command ends before place_bet.
FB_bet(g, u, amount, team_arg) ==
    LET team == LowerTeam(team_arg)
        existing == guild_bets[<<g, u>>]
        res == IF team \notin {"radiant", "dire"} THEN "invalid team"
               ELSE IF amount <= 0 THEN "invalid amount"
               ELSE IF existing.exists /\ team # existing.team
                    THEN "rejected team"
               ELSE IF existing.exists /\ amount <= existing.amount
                    THEN "rejected amount"
               ELSE "raised"
    IN /\ program = "FeederBot"
       /\ last' = Ev("bet", g, <<u, amount, team>>, res, <<>>)
       /\ UNCHANGED <<program, player_db, lobby_players, lobby_message,
                      mode_vars, cursor_vars, pure_vars, bet_vars, task_vars, service_vars>>
       /\ EndStreak(g)

\* the bets that an earlier run left in Firestore
\* the document that holds the bet of user u for the guild's match
OwnEntry(u) == <<TheGuild, sanitize(Nickname(u))>>
HasOwnBet(u) == bet_entries[OwnEntry(u)].exists /\ bet_entries[OwnEntry(u)].user_id = u

\* the amount of the bet that user u has stored for the match, 0 if none
StoredAmount(entries, u) ==
    IF entries[OwnEntry(u)].exists /\ entries[OwnEntry(u)].user_id = u
    THEN entries[OwnEntry(u)].amount ELSE 0

StoredBets ==
    {[k \in {TheGuild} \X EntryIds |-> NoBet],
     [k \in {TheGuild} \X EntryIds |->
         IF k[2] = sanitize(Nickname(3)) THEN BetDoc(3, "radiant", 50)
         ELSE NoBet]}

InitBet ==
    /\ program = "FeederBot"
    /\ player_db = [u \in Users |-> NoDoc]
    /\ lobby_players = [g \in {TheGuild} |-> <<>>]
    /\ lobby_message = [g \in {TheGuild} |-> "None"]
    /\ inhouse_mode = [g \in {TheGuild} |-> "absent"]
    /\ mode_store = [g \in {TheGuild} |-> "regular"]
    /\ roll_count = [g \in {TheGuild} |-> 0]
    /\ team_rolls = [g \in {TheGuild} |-> <<>>]
    /\ original_teams = [g \in {TheGuild} |-> <<>>]
    /\ captain_draft_state = [g \in {TheGuild} |-> NoDraft]
    /\ last = Ev("start", TheGuild, <<>>, "ok", <<>>)
    /\ streak = [g \in {TheGuild} |-> -1]
    /\ draft_streak = [g \in {TheGuild} |-> -1]
    /\ gens = [g \in {TheGuild} |-> 0]
    /\ players = <<>>
    /\ ret = NoCall
    /\ bet_entries \in StoredBets
    /\ wallets = [u \in Bettors |->
                     IF StoredAmount(bet_entries, u) > 0
                     THEN Wallet(DEFAULT_BALANCE - StoredAmount(bet_entries, u))
                     ELSE NoWallet]
    /\ guild_bets = [k \in {TheGuild} \X Bettors |-> NoGuildBet]
    /\ NoTasks
    /\ NoServices

FBBet ==
    \E g \in Guilds, u \in Bettors, a \in BetArgs : FB_bet(g, u, a[1], a[2])

CallPlaceBet ==
    \E g \in Guilds, u \in Bettors, amount \in {50, 100, 2000},
       team \in {"radiant", "dire"} :
        place_bet(u, team, amount, g, Nickname(u))

NextBet == FBBet \/ CallPlaceBet

SpecBet == InitBet /\ [][NextBet]_vars

\* C21: a user's stored bet for a guild's current match only ever changes to
\* a bet on the same team with a strictly larger amount: a later bet request
\* by that user that names the other team, or an amount not greater than the
\* stored one, is rejected and leaves the stored bet and the user's balance
\* unchanged.
C21_BetOnlyRaised ==
    [][\A u \in Bettors :
          HasOwnBet(u) =>
              LET old == bet_entries[OwnEntry(u)]
                  new == bet_entries'[OwnEntry(u)]
              IN /\ (new # old /\ new.user_id = u) =>
                       new.team = old.team /\ new.amount > old.amount
                 /\ (/\ last'.op = "bet" /\ last'.arg[1] = u
                     /\ (last'.arg[3] # old.team \/ last'.arg[2] <= old.amount)) =>
                       /\ last'.res \in {"invalid team", "invalid amount",
                                         "rejected team", "rejected amount"}
                       /\ bet_entries' = bet_entries
                       /\ wallets' = wallets]_vars

(***************************************************************************)
(* C22: the roster keeps join order.                                       *)
(***************************************************************************)
\* the entries of a roster that belong to none of the identities in S
Others(roster, S) == SelectSeq(roster, LAMBDA p : p[1] \notin S)
ResetStep(g) == AB_reset(g) \/ FB_reset(g)

\* C22: the roster keeps join order: a join reaction appends the participant
\* after all current entries, a leave reaction or a remove command deletes only
\* entries of the named participants and keeps the relative order of the
\* others, and after a reset the roster is empty.
C22_JoinOrderKept ==
    [][\A g \in Guilds :
          LET old == lobby_players[g]
              new == lobby_players'[g]
          IN /\ \A u \in Reactors :
                   JoinStep(g, u) =>
                      \/ new = old
                      \/ /\ Len(new) = Len(old) + 1
                         /\ SubSeq(new, 1, Len(old)) = old
                         /\ new[Len(new)][1] = u
             /\ \A u \in Reactors :
                   LeaveStep(g, u) =>
                      IF HasUid(old, u)
                      THEN \E i \in 1..Len(old) :
                              /\ old[i][1] = u
                              /\ new = SubSeq(old, 1, i - 1)
                                         \o SubSeq(old, i + 1, Len(old))
                      ELSE new = old
             /\ \A m \in RemoveArgs :
                   RemoveStep(g, m) =>
                      /\ Others(new, SeqToSet(m)) = Others(old, SeqToSet(m))
                      /\ Len(new) <= Len(old)
                      /\ \A i \in 1..Len(m) :
                            HasUid(old, m[i]) => Len(new) < Len(old)
                      /\ \A i \in 1..Len(new) : new[i] \in SeqToSet(old)
             /\ ResetStep(g) => new = <<>>]_vars

\* a participant in the middle of the roster has left: entries joined before
\* and after the leaver remain
C22_Witness ==
    /\ last.op \in {"leave", "remove"}
    /\ last.res = "ok"
    /\ Len(lobby_players[TheGuild]) >= 3
    /\ \E i \in 1..(Len(lobby_players[TheGuild]) - 1) :
          lobby_players[TheGuild][i][1] > lobby_players[TheGuild][i + 1][1]

(***************************************************************************)
(* C23: a generate request puts the cursor at the top.                     *)
(***************************************************************************)
\* the step is a generate request of guild g on a roster of 10
GenerateOnFull(g) ==
    /\ last'.op = "generate" /\ last'.g = g
    /\ Len(lobby_players[g]) = LOBBY_SIZE

RegularStep(g) ==
    /\ last'.op \in {"generate", "reroll"} /\ last'.g = g
    /\ last'.res = "regular"

\* the position of the cached ranked list that the reroll of this step reads
\* (counted from 1): ArmanBotty reads team_rolls[roll_count - 1] after the
\* increment, FeederBot reads team_rolls[0] of the list it has just stored
RerollReads(g) ==
    IF program = "ArmanBotty"
    THEN IF roll_count[g] >= MAX_ROLLS THEN {} ELSE {roll_count'[g]}
    ELSE {1}

\* C24: in regular mode, once a generate or an accepted reroll has run for a
\* lobby, its roll count stays within 1..MAX_ROLLS under every later join,
\* leave, reset, generate and reroll, and every position at which a reroll
\* reads the cached ranked list is within that list.
C24_RollCountInRange ==
    [][\A g \in Guilds :
          /\ (RegularStep(g) \/ roll_count[g] >= 1) =>
                roll_count'[g] \in 1..MAX_ROLLS
          /\ (RegularStep(g) /\ last'.op = "reroll") =>
                \A pos \in RerollReads(g) :
                   /\ pos \in 1..Len(team_rolls'[g])
                   /\ last'.shown = team_rolls'[g][pos]]_vars

\* a reroll has taken the roll count to MAX_ROLLS, and a later request of
\* another kind has left it there
C24_Witness ==
    /\ roll_count[TheGuild] = MAX_ROLLS
    /\ last.op \in {"leave", "join", "reset", "remove"}
    /\ last.res = "ok"

(***************************************************************************)
(* C25: the enumerators run only on a roster of 10.                        *)
(***************************************************************************)
\* the step of guild g calls calculate_balanced_teams or get_all_captain_pairs:
\* every generate that gets past the size test, FeederBot's regular reroll,
\* and FeederBot's captain-draft reroll when no draft state is stored
EnumeratorInvoked(g) ==
    /\ last'.g = g
    /\ \/ /\ last'.op = "generate"
          /\ last'.res \in {"regular", "immortal", "raised"}
       \/ /\ last'.op = "reroll"
          /\ program = "FeederBot"
          /\ \/ last'.res \in {"regular", "raised"}
             \/ last'.res = "immortal" /\ ~captain_draft_state[g].has

\* the step stores an enumerator's result for guild g
ResultStored(g) ==
    \/ team_rolls'[g] # team_rolls[g]
    \/ captain_draft_state'[g].pairs # captain_draft_state[g].pairs

\* C25: calculate_balanced_teams and get_all_captain_pairs are only ever
\* invoked on a roster of exactly 10 participants, under every sequence of
\* commands and reactions: every step that calls one of them or stores a
\* result starts from a roster of 10, and every stored list is a list over 10
\* participants (5 against 5, or 2 captains and a pool of 8).
C25_EnumeratorsOnTen ==
    /\ [][\A g \in Guilds :
             (EnumeratorInvoked(g) \/ ResultStored(g)) =>
                Len(lobby_players[g]) = LOBBY_SIZE]_vars
    /\ [](\A g \in Guilds :
             /\ \A i \in 1..Len(team_rolls[g]) :
                   /\ Len(team_rolls[g][i][1]) = TEAM_SIZE
                   /\ Len(team_rolls[g][i][2]) = TEAM_SIZE
             /\ \A i \in 1..Len(captain_draft_state[g].pairs) :
                   /\ Len(captain_draft_state[g].pairs[i][1]) = 2
                   /\ Len(captain_draft_state[g].pairs[i][2]) = LOBBY_SIZE - 2)

\* a result is cached while the roster has another size, and the request is
\* a generate or reroll that was ignored for the size
C25_Witness ==
    /\ last.op \in {"generate", "reroll"}
    /\ last.res = "ignored"
    /\ Len(lobby_players[last.g]) = LOBBY_SIZE + 1
    /\ team_rolls[last.g] # <<>> \/ captain_draft_state[last.g].has

(***************************************************************************)
(* C26: who may reroll and who may generate.                               *)
(***************************************************************************)
\* what the permission checks read of a member: the id is in
\* global_admin_ids, the administrator permission, the 'Inhouse Admin' role
Members == [global : BOOLEAN, administrator : BOOLEAN, role : BOOLEAN]

\* a user_is_admin_or_has_role that lets every member through
user_is_admin_or_has_role_open(member) == TRUE

user_is_admin_or_has_role(member) ==
    IF member.global THEN TRUE
    ELSE IF member.administrator THEN TRUE
    ELSE member.role

\* the test of the recycle branch of each bot
MayReroll(member) ==
    IF program = "ArmanBotty" THEN member.administrator
    ELSE user_is_admin_or_has_role(member)

\* the step is a reroll reaction of this member on the lobby of guild g
RerollBy(g, member) ==
    \E u \in Users : \/ AB_Recycle(g, u, MayReroll(member))
                     \/ FB_Recycle(g, u, MayReroll(member))

\* the claim's member who is not an administrator
Plain(member) ==
    /\ ~member.administrator
    /\ program = "FeederBot" => ~member.global /\ ~member.role

\* C26: a reroll reaction from a member who is not an administrator
\* (FeederBot: nor a global admin or holder of the 'Inhouse Admin' role)
\* leaves the roll count, the cached ranked list, the captain-draft index and
\* the displayed teams unchanged, while a generate reaction on a full roster is
\* accepted from any member.
C26_RerollNeedsAdmin ==
    [][\A g \in Guilds :
          /\ \A member \in Members :
                (Plain(member) /\ RerollBy(g, member)) =>
                   /\ roll_count' = roll_count
                   /\ team_rolls' = team_rolls
                   /\ captain_draft_state' = captain_draft_state
                   /\ original_teams' = original_teams
                   /\ last'.shown = <<>>
          /\ GenerateOnFull(g) =>
                /\ last'.res \in {"regular", "immortal"}
                /\ last'.shown = original_teams'[g]
                /\ last'.shown # <<>>]_vars

\* a reroll was denied on a full roster whose cursor had been moved
C26_Witness ==
    /\ last.op = "reroll"
    /\ last.res = "denied"
    /\ Len(lobby_players[last.g]) = LOBBY_SIZE
    /\ \/ roll_count[last.g] > 1
       \/ captain_draft_state[last.g].index > 0

(***************************************************************************)
(* C29, C30: the wallet and the stored bet across a place_bet call.        *)
(***************************************************************************)
\* the step is the call place_bet(u, team, amount, TheGuild, nickname of u)
PlaceBetStep(u, team, amount) ==
    place_bet(u, team, amount, TheGuild, Nickname(u))

\* C29: a place_bet call that returns False because the balance is
\* insufficient leaves the user's wallet balance and any bet the user had
\* already stored for that match unchanged.
C29_FailedBetChangesNothing ==
    [][(last'.op = "place_bet" /\ last'.res = "False") =>
          LET u == last'.arg[1]
              amount == last'.arg[2]
              team == last'.arg[3]
          IN PlaceBetStep(u, team, amount) =>
                /\ get_balance(wallets', u) = get_balance(wallets, u)
                /\ bet_entries' = bet_entries]_vars

\* C30: coins are conserved by a successful place_bet: for a user replacing
\* their own stored bet or placing a first one, the wallet balance plus the
\* stored bet amount after the call equals the wallet balance plus the stored
\* bet amount (0 if none) before the call.
C30_CoinsConserved ==
    [][(last'.op = "place_bet" /\ last'.res = "True") =>
          LET u == last'.arg[1]
              amount == last'.arg[2]
              team == last'.arg[3]
          IN (/\ PlaceBetStep(u, team, amount)
              /\ HasOwnBet(u) \/ ~bet_entries[OwnEntry(u)].exists) =>
                /\ bet_entries'[OwnEntry(u)] = BetDoc(u, team, amount)
                /\ get_balance(wallets', u) + StoredAmount(bet_entries', u)
                      = get_balance(wallets, u)
                           + StoredAmount(bet_entries, u)]_vars

\* user 3, whose bet of 50 was stored with an untouched wallet, has replaced
\* it by a bet of 100: the wallet holds 950
C30_Witness ==
    /\ last.op = "place_bet" /\ last.res = "True" /\ last.arg[1] = 3
    /\ StoredAmount(bet_entries, 3) = 100
    /\ get_balance(wallets, 3) = DEFAULT_BALANCE - 50

(***************************************************************************)
(* Handlers that interleave.  discord.py runs every event handler and      *)
(* command as a task of one event loop; a task gives up control only at an *)
(* await, and nothing locks the lobby.  Each action below is the stretch   *)
(* of a handler from one await to the next.                                *)
(***************************************************************************)
\* the members whose thumbs-up and thumbs-down reactions arrive
Joiners == {CoreSize + 1, CoreSize + 2}
Leavers == {1, CoreSize + 1}

\* what a step of a handler leaves alone besides the roster, the mode in
\* memory, the tasks and the reactions
async_frame == <<program, player_db, lobby_message, mode_store, cursor_vars,
                 last, streak, draft_streak, gens, pure_vars, bet_vars,
                 service_vars>>

\* the task is suspended at the await named pc
Suspend(t, pc, was_full, snapshot) ==
    tasks' = [tasks EXCEPT ![t] = [@ EXCEPT !.pc = pc, !.was_full = was_full,
                                            !.snapshot = snapshot]]
\* the rest of the handler changes nothing that is modelled: it removes the
\* user's reaction and returns
Finish(t) == tasks' = [tasks EXCEPT ![t] = Idle]

\* update_lobby_embed up to `await message.edit(embed=embed)`
EmbedBuilt(g) ==
    IF program = "FeederBot" THEN update_lobby_embed(g) ELSE inhouse_mode

\* on_raw_reaction_add up to `message = await channel.fetch_message(...)`
ReactionArrives(t, emoji, u) ==
    /\ tasks[t] = Idle
    /\ lobby_message[TheGuild] = "msg"
    /\ tasks' = [tasks EXCEPT ![t] = [Idle EXCEPT !.kind = emoji, !.user = u,
                                                  !.pc = "fetch_message"]]
    /\ UNCHANGED <<lobby_players, inhouse_mode, reactions, async_frame>>

\* a thumbs-up branch that appends whatever the size of the roster
JoinBranch_no_size_test(t) ==
    LET g == TheGuild
        u == tasks[t].user
    IN /\ tasks[t].kind = "join" /\ tasks[t].pc = "fetch_message"
       /\ IF ~HasUid(lobby_players[g], u)
          THEN /\ lobby_players' = [lobby_players EXCEPT
                      ![g] = Append(@, Player(u, StoredNow(u)))]
               /\ inhouse_mode' = EmbedBuilt(g)
               /\ Suspend(t, "edit", FALSE, {})
          ELSE /\ Finish(t)
               /\ UNCHANGED <<lobby_players, inhouse_mode>>
       /\ UNCHANGED <<reactions, async_frame>>

\* the thumbs-up branch, from the fetched message to the next await: the size
\* test (FeederBot), the membership test and the append, then update_lobby_embed
JoinBranch(t) ==
    LET g == TheGuild
        u == tasks[t].user
    IN /\ tasks[t].kind = "join" /\ tasks[t].pc = "fetch_message"
       /\ IF program = "FeederBot" /\ Len(lobby_players[g]) >= LOBBY_SIZE
          THEN /\ Finish(t)
               /\ UNCHANGED <<lobby_players, inhouse_mode>>
          ELSE IF ~HasUid(lobby_players[g], u)
          THEN /\ lobby_players' = [lobby_players EXCEPT
                      ![g] = Append(@, Player(u, StoredNow(u)))]
               /\ inhouse_mode' = EmbedBuilt(g)
               /\ Suspend(t, "edit", FALSE, {})
          ELSE /\ Finish(t)
               /\ UNCHANGED <<lobby_players, inhouse_mode>>
       /\ UNCHANGED <<reactions, async_frame>>

\* the thumbs-down branch, from the fetched message to the next await:
\* was_full, the deletion, and `await channel.send(...)` when the roster went
\* from 10 to 9; message.reactions is what the fetch returned
LeaveBranch(t) ==
    LET g == TheGuild
        u == tasks[t].user
        was_full == Len(lobby_players[g]) = LOBBY_SIZE
    IN /\ tasks[t].kind = "leave" /\ tasks[t].pc = "fetch_message"
       /\ lobby_players' = [lobby_players EXCEPT ![g] = RemoveUid(@, u)]
       /\ IF ~HasUid(lobby_players[g], u)
          THEN /\ Finish(t)
               /\ UNCHANGED inhouse_mode
          ELSE IF was_full /\ Len(lobby_players'[g]) = LOBBY_SIZE - 1
          THEN /\ Suspend(t, "send", was_full, reactions)
               /\ UNCHANGED inhouse_mode
          ELSE /\ inhouse_mode' = EmbedBuilt(g)
               /\ Suspend(t, "edit", was_full, reactions)
       /\ UNCHANGED <<reactions, async_frame>>

\* the thumbs-down branch after `await channel.send(...)`: the test
\* `was_full and len(lobby_players) == 9` and the clearing of the rocket and
\* recycle reactions found on the fetched message, then update_lobby_embed
LeaveResumes(t) ==
    LET g == TheGuild
    IN /\ tasks[t].kind = "leave" /\ tasks[t].pc = "send"
       /\ reactions' =
             IF tasks[t].was_full /\ Len(lobby_players[g]) = LOBBY_SIZE - 1
             THEN reactions \ (tasks[t].snapshot \cap Special)
             ELSE reactions
       /\ inhouse_mode' = EmbedBuilt(g)
       /\ Suspend(t, "edit", tasks[t].was_full, tasks[t].snapshot)
       /\ UNCHANGED <<lobby_players, async_frame>>

\* update_lobby_embed after `await message.edit(embed=embed)`: the rocket is
\* added when the roster has 10 entries now
EmbedEdited(t) ==
    /\ tasks[t].pc = "edit"
    /\ reactions' = IF Len(lobby_players[TheGuild]) = LOBBY_SIZE
                    THEN reactions \cup {"rocket"} ELSE reactions
    /\ Finish(t)
    /\ UNCHANGED <<lobby_players, inhouse_mode, async_frame>>

\* add_to_lobby up to its first await: the size test (FeederBot) and the loop
AddCommand(t, members) ==
    LET g == TheGuild
        added == IF program = "ArmanBotty"
                 THEN AB_AddMembers(lobby_players[g], members)
                 ELSE IF Len(lobby_players[g]) >= LOBBY_SIZE
                 THEN lobby_players[g]
                 ELSE FB_AddMembers(lobby_players[g], members)
    IN /\ tasks[t] = Idle
       /\ lobby_players' = [lobby_players EXCEPT ![g] = added]
       /\ IF added # lobby_players[g]
          THEN /\ inhouse_mode' = EmbedBuilt(g)
               /\ tasks' = [tasks EXCEPT ![t] = [Idle EXCEPT !.kind = "add",
                                                             !.pc = "edit"]]
          ELSE UNCHANGED <<inhouse_mode, tasks>>
       /\ UNCHANGED <<reactions, async_frame>>

\* the lobby has just been posted by !lobby: the message carries the two
\* thumbs only
InitAsync ==
    /\ program \in {"ArmanBotty", "FeederBot"}
    /\ player_db = [u \in Users |->
                       IF u <= CoreSize THEN Doc(StoredMmr(u)) ELSE NoDoc]
    /\ lobby_players = [g \in {TheGuild} |-> <<>>]
    /\ lobby_message = [g \in {TheGuild} |-> "msg"]
    /\ mode_store = [g \in {TheGuild} |-> "regular"]
    /\ inhouse_mode = [g \in {TheGuild} |->
                          IF program = "FeederBot" THEN "regular" ELSE "absent"]
    /\ roll_count = [g \in {TheGuild} |-> 0]
    /\ team_rolls = [g \in {TheGuild} |-> <<>>]
    /\ original_teams = [g \in {TheGuild} |-> <<>>]
    /\ captain_draft_state = [g \in {TheGuild} |-> NoDraft]
    /\ last = Ev("lobby", TheGuild, <<>>, "ok", <<>>)
    /\ streak = [g \in {TheGuild} |-> -1]
    /\ draft_streak = [g \in {TheGuild} |-> -1]
    /\ gens = [g \in {TheGuild} |-> 0]
    /\ players = <<>>
    /\ ret = NoCall
    /\ NoBets
    /\ NoTasks
    /\ NoServices

JoinArrives ==
    \E t \in TaskIds, u \in Joiners : ReactionArrives(t, "join", u)
LeaveArrives ==
    \E t \in TaskIds, u \in Leavers : ReactionArrives(t, "leave", u)
JoinRuns == \E t \in TaskIds : JoinBranch(t)
LeaveRuns == \E t \in TaskIds : LeaveBranch(t)
LeaveContinues == \E t \in TaskIds : LeaveResumes(t)
EditReturns == \E t \in TaskIds : EmbedEdited(t)
AddRuns == \E t \in TaskIds, m \in {Core} : AddCommand(t, m)

NextAsync ==
    \/ JoinArrives \/ LeaveArrives \/ JoinRuns \/ LeaveRuns
    \/ LeaveContinues \/ EditReturns \/ AddRuns

SpecAsync == InitAsync /\ [][NextAsync]_vars

\* C27: when several reaction and command handlers of the same lobby run
\* interleaved, switching only at their await points and with no lock, no
\* handler appends a participant on the basis of a size or membership check
\* that another handler has invalidated in between: the roster stays unique by
\* identity, a step that appends starts from a roster of fewer than 10, and a
\* join reaction never appends to a roster that already holds 10 participants
\* or the joiner (FeederBot).
C27_NoStaleCheck ==
    /\ [](program = "FeederBot" =>
             \A i, j \in 1..Len(lobby_players[TheGuild]) :
                i # j => lobby_players[TheGuild][i][1]
                            # lobby_players[TheGuild][j][1])
    /\ [][program = "FeederBot" =>
             LET old == lobby_players[TheGuild]
                 new == lobby_players'[TheGuild]
             IN /\ Len(new) > Len(old) => Len(old) < LOBBY_SIZE
                /\ \A t \in TaskIds :
                      (/\ tasks[t].kind = "join"
                       /\ tasks[t].pc = "fetch_message"
                       /\ tasks'[t].pc # "fetch_message"
                       /\ new # old) =>
                         /\ Len(old) < LOBBY_SIZE
                         /\ ~HasUid(old, tasks[t].user)
                         /\ new = Append(old, new[Len(new)])
                         /\ new[Len(new)][1] = tasks[t].user]_vars

\* two join handlers of the same member are in flight in FeederBot: the first
\* has appended and waits for the embed, the second has yet to make its tests;
\* the roster holds 10
C27_Witness ==
    /\ program = "FeederBot"
    /\ Len(lobby_players[TheGuild]) = LOBBY_SIZE
    /\ \E t1, t2 \in TaskIds :
          /\ tasks[t1].kind = "join" /\ tasks[t1].pc = "edit"
          /\ tasks[t2].kind = "join" /\ tasks[t2].pc = "fetch_message"
          /\ tasks[t2].user = tasks[t1].user

\* C28: whenever leave reactions take a full roster (10) below 10, the bot
\* clears the generate (rocket) and reroll (recycle) reactions from the lobby
\* message, also when two leave handlers of the same lobby interleave at the
\* await inside the leave branch: once a leave handler that took the roster
\* from 10 to 9 is past its clearing test and the roster is below 10, neither
\* reaction is on the message.
C28_ClearedBelowTen ==
    [][\A t \in TaskIds :
          (/\ tasks[t].kind = "leave"
           /\ tasks[t].pc = "send"
           /\ tasks'[t].pc = "edit"
           /\ Len(lobby_players'[TheGuild]) < LOBBY_SIZE) =>
             reactions' \cap Special = {}]_vars

(***************************************************************************)
(* mmr_manager.py: the inhouse ratings.                                    *)
(***************************************************************************)
\* the rating of a user without a record, and of a record without the field
DEFAULT_INHOUSE_MMR == 1000
\* adjust_mmr is not called when it would take a rating further than this
\* from DEFAULT_INHOUSE_MMR
MaxSwing == 100

\* get_inhouse_mmr(guild_id, user_id), on the ratings r
get_inhouse_mmr(r, guild_id, user_id) ==
    IF r[<<guild_id, user_id>>].exists THEN r[<<guild_id, user_id>>].mmr
    ELSE DEFAULT_INHOUSE_MMR

\* set_inhouse_mmr(guild_id, user_id, nickname, mmr): the ratings after it
set_inhouse_mmr(r, guild_id, user_id, mmr) ==
    [r EXCEPT ![<<guild_id, user_id>>] = Rating(mmr)]

RECURSIVE AdjustEach(_, _, _, _)
\* one loop of adjust_mmr: for uid in ids: current = get_inhouse_mmr(...);
\* set_inhouse_mmr(guild_id, uid, nickname, current + delta)
AdjustEach(r, ids, guild_id, delta) ==
    IF ids = <<>> THEN r
    ELSE AdjustEach(set_inhouse_mmr(r, guild_id, Head(ids),
                        get_inhouse_mmr(r, guild_id, Head(ids)) + delta),
                    Tail(ids), guild_id, delta)

\* an adjust_mmr that writes the losers' ratings under every guild
Adjusted_all_guilds(r, winner_ids, loser_ids, guild_id, gain, loss) ==
    LET won == AdjustEach(r, winner_ids, guild_id, gain)
    IN [k \in DOMAIN r |->
           IF InSeq(k[2], loser_ids)
           THEN Rating(get_inhouse_mmr(won, k[1], k[2]) - loss)
           ELSE won[k]]

\* adjust_mmr(winner_ids, loser_ids, guild_id, guild, gain, loss): the
\* ratings after the loop over the winners and the loop over the losers
Adjusted(r, winner_ids, loser_ids, guild_id, gain, loss) ==
    AdjustEach(AdjustEach(r, winner_ids, guild_id, gain),
               loser_ids, guild_id, 0 - loss)

\* every rating is within MaxSwing of the default
WithinSwing(r) ==
    \A k \in DOMAIN r :
       r[k].exists => Abs(r[k].mmr - DEFAULT_INHOUSE_MMR) <= MaxSwing

\* the call adjust_mmr(winner_ids, loser_ids, guild_id, guild, gain, loss)
adjust_mmr(winner_ids, loser_ids, guild_id, gain, loss) ==
    /\ program = "FeederBot"
    /\ inhouse_mmr' =
          Adjusted(inhouse_mmr, winner_ids, loser_ids, guild_id, gain, loss)
    /\ WithinSwing(inhouse_mmr')
    /\ last' = Ev("adjust_mmr", guild_id, <<winner_ids, loser_ids>>,
                  <<gain, loss>>, <<>>)
    /\ UNCHANGED <<program, player_db, lobby_players, lobby_message,
                   mode_vars, cursor_vars, streak, draft_streak, gens,
                   pure_vars, bet_vars, task_vars, live_vars,
                      fetch_vars>>

\* the lists of user ids that are tried: no id twice in one list
IdLists == {<<>>, <<1>>, <<2, 1>>}
\* gain and loss: the defaults, and a call that names both
GainLoss == {<<50, 50>>, <<100, 50>>}

\* the ratings that earlier matches left: user 3 has a record in one guild
StoredRatings ==
    {[k \in ServiceGuilds \X Rated |-> NoRating],
     [k \in ServiceGuilds \X Rated |->
         IF k = <<TheGuild, 3>> THEN Rating(950) ELSE NoRating]}

InitInhouse ==
    /\ program = "FeederBot"
    /\ player_db = [u \in Users |-> NoDoc]
    /\ lobby_players = [g \in {TheGuild} |-> <<>>]
    /\ lobby_message = [g \in {TheGuild} |-> "None"]
    /\ inhouse_mode = [g \in {TheGuild} |-> "absent"]
    /\ mode_store = [g \in {TheGuild} |-> "regular"]
    /\ roll_count = [g \in {TheGuild} |-> 0]
    /\ team_rolls = [g \in {TheGuild} |-> <<>>]
    /\ original_teams = [g \in {TheGuild} |-> <<>>]
    /\ captain_draft_state = [g \in {TheGuild} |-> NoDraft]
    /\ last = Ev("start", TheGuild, <<>>, "ok", <<>>)
    /\ streak = [g \in {TheGuild} |-> -1]
    /\ draft_streak = [g \in {TheGuild} |-> -1]
    /\ gens = [g \in {TheGuild} |-> 0]
    /\ players = <<>>
    /\ ret = NoCall
    /\ NoBets
    /\ NoTasks
    /\ inhouse_mmr \in StoredRatings
    /\ LIVE_CHANNEL_IDS = [g \in ServiceGuilds |-> NoChannel]
    /\ live_channel_store = [g \in ServiceGuilds |-> 0]
    /\ live_embed_messages = [g \in ServiceGuilds |-> 0]
    /\ polling_task = "None"
    /\ live_tasks = 0
    /\ responses = <<>>
    /\ fetch_call = NotFetched

CallAdjustMmr ==
    \E w \in IdLists, l \in IdLists, g \in ServiceGuilds, gl \in GainLoss :
        adjust_mmr(w, l, g, gl[1], gl[2])

NextInhouse == CallAdjustMmr

SpecInhouse == InitInhouse /\ [][NextInhouse]_vars


\* C35: adjust_mmr raises the inhouse rating of every winner id by gain
\* (default 50) and lowers that of every loser id by loss (default 50),
\* counting a user without a record as 1000, and leaves the inhouse rating of
\* every other user and of every other guild unchanged.
C35_AdjustMmr ==
    [][last'.op = "adjust_mmr" =>
          LET w == last'.arg[1]
              l == last'.arg[2]
              g == last'.g
              gain == last'.res[1]
              loss == last'.res[2]
          IN adjust_mmr(w, l, g, gain, loss) =>
                \A k \in ServiceGuilds \X Rated :
                   IF k[1] = g /\ (InSeq(k[2], w) \/ InSeq(k[2], l))
                   THEN get_inhouse_mmr(inhouse_mmr', k[1], k[2]) =
                           get_inhouse_mmr(inhouse_mmr, k[1], k[2])
                           + (IF InSeq(k[2], w) THEN gain ELSE 0)
                           - (IF InSeq(k[2], l) THEN loss ELSE 0)
                   ELSE inhouse_mmr'[k] = inhouse_mmr[k]]_vars

\* user 1, who had no record, was among the winners and the losers of a call
\* with gain 100 and loss 50, user 2 among the losers; user 3, rated in the
\* same guild, and the other guild were left alone
C35_Witness ==
    /\ last.op = "adjust_mmr" /\ last.g = TheGuild
    /\ last.arg = << <<1>>, <<2, 1>> >> /\ last.res = <<100, 50>>
    /\ inhouse_mmr[<<TheGuild, 1>>] = Rating(DEFAULT_INHOUSE_MMR + 50)
    /\ inhouse_mmr[<<TheGuild, 2>>] = Rating(DEFAULT_INHOUSE_MMR - 50)
    /\ inhouse_mmr[<<TheGuild, 3>>] = Rating(950)
    /\ ~inhouse_mmr[<<TheGuild + 1, 1>>].exists

(***************************************************************************)
(* betting_manager.py: resolve_bets and clear_guild_bets, and the          *)
(* submitmatch command of FeederBot.py.                                    *)
(***************************************************************************)
\* resolve_bets is not called when it would take a balance beyond this
MaxPayout == 2000

\* f"{sanitize_name(ctx.guild.name)}_{ctx.guild.id}", the key under which
\* clear_guild_bets and clear_all_bets look for entries.  It is never
\* str(guild.id), the key that the bet command passes to place_bet and that
\* submitmatch passes to resolve_bets: it holds a "_" in front of the id.
GuildKey(g) == g + 100
MatchKeys == {TheGuild, GuildKey(TheGuild)}

\* the document ids under which entries are kept: the bettors' sanitized
\* nicknames and the id of a document that no bettor's nickname gives
StaleId == <<"_", "_">>
PayoutIds == EntryIds \cup {StaleId}
\* the order in which stream() yields the documents: by document id
StreamOrder == <<StaleId, sanitize(Nickname(3)), sanitize(Nickname(1))>>

\* list(db.collection("bets").document(match_key).collection("entries")
\* .stream()): the documents that exist
Stream(entries, match_key) ==
    SelectSeq([i \in 1..Len(StreamOrder) |->
                  entries[<<match_key, StreamOrder[i]>>]],
              LAMBDA doc : doc.exists)

RECURSIVE Payout_stake_only(_, _, _)
\* a resolve_bets that gives a winner the stake back and nothing more
Payout_stake_only(w, docs, winning_team) ==
    IF docs = <<>> THEN w
    ELSE LET data == Head(docs)
         IN IF data.user_id = 0 \/ data.team = ""
            THEN Payout_stake_only(w, Tail(docs), winning_team)
            ELSE IF data.team = winning_team
            THEN Payout_stake_only(update_balance(w, data.user_id, data.amount),
                                   Tail(docs), winning_team)
            ELSE Payout_stake_only(w, Tail(docs), winning_team)

RECURSIVE Payout(_, _, _)
\* the loop of resolve_bets over the entries: the wallets after it.  A
\* document without user_id (0) or team ("") is skipped.
Payout(w, docs, winning_team) ==
    IF docs = <<>> THEN w
    ELSE LET data == Head(docs)
         IN IF data.user_id = 0 \/ data.team = ""
            THEN Payout(w, Tail(docs), winning_team)
            ELSE IF data.team = winning_team
            THEN Payout(update_balance(w, data.user_id, data.amount * 2),
                        Tail(docs), winning_team)
            ELSE Payout(w, Tail(docs), winning_team)

\* no balance is beyond MaxPayout
WithinPayout(w) == \A u \in Bettors : get_balance(w, u) <= MaxPayout

\* resolve_bets(match_key, winning_team)
resolve_bets(match_key, winning_team) ==
    /\ program = "FeederBot"
    /\ wallets' = Payout(wallets, Stream(bet_entries, match_key), winning_team)
    /\ WithinPayout(wallets')
    /\ last' = Ev("resolve_bets", match_key, <<winning_team>>, "ok", <<>>)
    /\ UNCHANGED <<program, player_db, lobby_players, lobby_message,
                   mode_vars, cursor_vars, pure_vars, bet_entries, guild_bets,
                   task_vars, service_vars>>
    /\ EndStreak(match_key)

\* clear_guild_bets(ctx): the entries after it.  Every entry under
\* GuildKey(g) is deleted.
Cleared(entries, g) ==
    [k \in DOMAIN entries |-> IF k[1] = GuildKey(g) THEN NoBet ELSE entries[k]]

\* what fetch_match_result returned, with the Steam ids of each side already
\* mapped to the Discord ids that get_discord_id_from_steam_id finds
NoResult == [found |-> FALSE, radiant_win |-> FALSE, radiant |-> <<>>,
             dire |-> <<>>]
Results ==
    {NoResult,
     [found |-> TRUE, radiant_win |-> TRUE, radiant |-> <<1>>, dire |-> <<>>],
     [found |-> TRUE, radiant_win |-> FALSE, radiant |-> <<>>, dire |-> <<1>>]}

\* what db.collection("bets").document(ctx.guild.id) does with an id that is
\* an int.  The Firestore client is not part of the source: it either rejects
\* the id, and resolve_bets raises, or reads the document str(id).
IntKeyOutcomes == {"raises", "read"}

\* !submitmatch <match_id> in guild g.  allowed: the author passes
\* is_admin_or_has_role; digits: match_id.isdigit().
FB_submitmatch(g, allowed, digits, result, int_key) ==
    LET winner_ids == IF result.radiant_win THEN result.radiant ELSE result.dire
        loser_ids == IF result.radiant_win THEN result.dire ELSE result.radiant
        winning_team == IF result.radiant_win THEN "radiant" ELSE "dire"
        res == IF ~allowed THEN "denied"
               ELSE IF ~digits THEN "not a number"
               ELSE IF ~result.found THEN "no result"
               ELSE IF int_key = "raises" THEN "raised"
               ELSE "ok"
    IN /\ program = "FeederBot"
       /\ inhouse_mmr' =
             IF res \in {"raised", "ok"}
             THEN Adjusted(inhouse_mmr, winner_ids, loser_ids, g, 50, 50)
             ELSE inhouse_mmr
       /\ WithinSwing(inhouse_mmr')
       /\ wallets' =
             IF res = "ok"
             THEN Payout(wallets, Stream(bet_entries, g), winning_team)
             ELSE wallets
       /\ WithinPayout(wallets')
       /\ bet_entries' =
             IF res = "ok" THEN Cleared(bet_entries, g) ELSE bet_entries
       /\ last' = Ev("submitmatch", g, <<winning_team>>, res, <<>>)
       /\ UNCHANGED <<program, player_db, lobby_players, lobby_message,
                      mode_vars, cursor_vars, pure_vars, guild_bets,
                      task_vars, live_vars,
                      fetch_vars>>
       /\ EndStreak(g)

\* the entries and wallets that earlier bets left in Firestore.  Either
\* nothing, or: a bet of user 3, a document without team under the nickname
\* of user 1, a document without user id that no nickname gives, and a bet
\* of user 2 under the key of clear_guild_bets, each of the whole balance
StoredEntry(n, k) ==
    IF n = 0 THEN NoBet
    ELSE IF k = <<TheGuild, sanitize(Nickname(3))>>
    THEN BetDoc(3, "radiant", DEFAULT_BALANCE)
    ELSE IF k = <<TheGuild, sanitize(Nickname(1))>> THEN BetDoc(1, "", DEFAULT_BALANCE)
    ELSE IF k = <<TheGuild, StaleId>> THEN BetDoc(0, "radiant", DEFAULT_BALANCE)
    ELSE IF k = <<GuildKey(TheGuild), sanitize(Nickname(2))>>
    THEN BetDoc(2, "dire", DEFAULT_BALANCE)
    ELSE NoBet
StoredWallet(n, u) ==
    IF n = 0 THEN NoWallet ELSE Wallet(0)

InitPayout ==
    /\ program = "FeederBot"
    /\ player_db = [u \in Users |-> NoDoc]
    /\ lobby_players = [g \in {TheGuild} |-> <<>>]
    /\ lobby_message = [g \in {TheGuild} |-> "None"]
    /\ inhouse_mode = [g \in {TheGuild} |-> "absent"]
    /\ mode_store = [g \in {TheGuild} |-> "regular"]
    /\ roll_count = [g \in {TheGuild} |-> 0]
    /\ team_rolls = [g \in {TheGuild} |-> <<>>]
    /\ original_teams = [g \in {TheGuild} |-> <<>>]
    /\ captain_draft_state = [g \in {TheGuild} |-> NoDraft]
    /\ last = Ev("start", TheGuild, <<>>, "ok", <<>>)
    /\ streak = [g \in {TheGuild} |-> -1]
    /\ draft_streak = [g \in {TheGuild} |-> -1]
    /\ gens = [g \in {TheGuild} |-> 0]
    /\ players = <<>>
    /\ ret = NoCall
    /\ \E n \in {0, 1} :
          /\ bet_entries = [k \in MatchKeys \X PayoutIds |-> StoredEntry(n, k)]
          /\ wallets = [u \in Bettors |-> StoredWallet(n, u)]
    /\ guild_bets = [k \in {TheGuild} \X Bettors |-> NoGuildBet]
    /\ NoTasks
    /\ NoServices

CallResolveBets ==
    \E g \in Guilds, team \in {"radiant", "dire"} : resolve_bets(g, team)

FBSubmitmatch ==
    \E g \in Guilds, allowed \in BOOLEAN, digits \in BOOLEAN,
       result \in Results, int_key \in IntKeyOutcomes :
        FB_submitmatch(g, allowed, digits, result, int_key)

PayoutPlaceBet ==
    \E g \in Guilds, u \in Bettors, amount \in {1000, 2000},
       team \in {"radiant", "dire"} :
        place_bet(u, team, amount, g, Nickname(u))

NextPayout == PayoutPlaceBet \/ CallResolveBets \/ FBSubmitmatch

SpecPayout == InitPayout /\ [][NextPayout]_vars

(***************************************************************************)
(* C31..C34: wallets and stored bets under place_bet, resolve_bets and     *)
(* submitmatch.                                                            *)
(***************************************************************************)
\* C31: with strictly positive bet amounts, no sequence of place_bet and
\* resolve_bets calls makes any wallet balance negative (a wallet with no
\* record counts as 1000).
C31_NoNegativeBalance == \A u \in Bettors : get_balance(wallets, u) >= 0

\* a user has staked the whole balance and resolve_bets has paid nothing for
\* it: the wallet holds 0
C31_Witness ==
    /\ last.op = "resolve_bets"
    /\ \E u \in Bettors :
          /\ wallets[u] = Wallet(0)
          /\ StoredAmount(bet_entries, u) = DEFAULT_BALANCE
          /\ bet_entries[OwnEntry(u)].team # last.arg[1]

RECURSIVE Winnings(_, _, _)
\* twice the amounts of the documents that name user u and the winning team
Winnings(docs, u, winning_team) ==
    IF docs = <<>> THEN 0
    ELSE (IF Head(docs).user_id = u /\ Head(docs).team = winning_team
          THEN 2 * Head(docs).amount ELSE 0)
         + Winnings(Tail(docs), u, winning_team)

\* C32: resolve_bets credits every bettor whose stored bet is on the winning
\* team with exactly twice the stored amount, leaves the balance of every
\* bettor on the losing team unchanged, and skips entries that lack a user id
\* or a team without changing any balance.
C32_ResolveBets ==
    [][last'.op = "resolve_bets" =>
          LET key == last'.g
              team == last'.arg[1]
              docs == Stream(bet_entries, key)
          IN resolve_bets(key, team) =>
                /\ \A u \in Bettors :
                      IF Winnings(docs, u, team) > 0
                      THEN get_balance(wallets', u) =
                              get_balance(wallets, u) + Winnings(docs, u, team)
                      ELSE wallets'[u] = wallets[u]
                /\ bet_entries' = bet_entries]_vars

\* radiant has won: user 3 was paid twice the 1000 on radiant, the wallet of
\* user 2 who had bet on dire is unchanged, and the document without user
\* id was passed over
C32_Witness ==
    /\ last.op = "resolve_bets" /\ last.arg = <<"radiant">>
    /\ bet_entries[OwnEntry(3)] = BetDoc(3, "radiant", DEFAULT_BALANCE)
    /\ wallets[3] = Wallet(2 * DEFAULT_BALANCE)
    /\ bet_entries[<<TheGuild, StaleId>>] = BetDoc(0, "radiant", DEFAULT_BALANCE)
    /\ bet_entries[OwnEntry(2)] = BetDoc(2, "dire", DEFAULT_BALANCE)
    /\ wallets[1] = Wallet(0)
    /\ wallets[2] = Wallet(0)

C34_BetsDoNotInterfere ==
    [][last'.op = "place_bet" =>
          LET u == last'.arg[1]
              amount == last'.arg[2]
              team == last'.arg[3]
          IN PlaceBetStep(u, team, amount) =>
                \A v \in Bettors \ {u} :
                   HasOwnBet(v) =>
                      /\ bet_entries'[OwnEntry(v)] = bet_entries[OwnEntry(v)]
                      /\ last'.res = "True" =>
                            get_balance(wallets', u) =
                               get_balance(wallets, u)
                               + StoredAmount(bet_entries, u) - amount]_vars

(***************************************************************************)
(* The retry loops of fetch_mmr_from_stratz (FeederBot.py) and of          *)
(* fetch_match_result (match_tracker.py).  The answers of STRATZ to the    *)
(* successive requests of one call are an input: "200", "429", another     *)
(* status ("500"), or "exception" for a request that raises and for a 200  *)
(* answer whose body raises when it is read.                               *)
(***************************************************************************)
\* max_retries=5
DEFAULT_MAX_RETRIES == 5
Answers == {"200", "429", "500", "exception"}
\* one answer more than the default number of attempts is at hand
AnswerLists == [1..(DEFAULT_MAX_RETRIES + 1) -> Answers]

RECURSIVE StratzAttempts_retry_on_error(_, _, _)
\* a loop that also repeats the request after a status other than 200
StratzAttempts_retry_on_error(answers, attempt, max_retries) ==
    IF attempt >= max_retries
    THEN [value |-> "None", requests |-> attempt]
    ELSE IF answers[attempt + 1] = "200"
    THEN [value |-> "result", requests |-> attempt + 1]
    ELSE IF answers[attempt + 1] \in {"429", "500"}
    THEN StratzAttempts_retry_on_error(answers, attempt + 1, max_retries)
    ELSE [value |-> "None", requests |-> attempt + 1]

RECURSIVE StratzAttempts(_, _, _)
\* fetch_mmr_from_stratz from `for attempt in range(max_retries)` on, at the
\* given attempt: what it returns ("result": (mmr, season_rank) of the
\* answer; "None": (None, None)) and the requests made up to then
StratzAttempts(answers, attempt, max_retries) ==
    IF attempt >= max_retries
    THEN [value |-> "None", requests |-> attempt]
    ELSE IF answers[attempt + 1] = "200"
    THEN [value |-> "result", requests |-> attempt + 1]
    ELSE IF answers[attempt + 1] = "429"
    THEN StratzAttempts(answers, attempt + 1, max_retries)
    ELSE [value |-> "None", requests |-> attempt + 1]

RECURSIVE MatchAttempts(_, _, _)
\* fetch_match_result from `for attempt in range(max_retries)` on ("result":
\* the dictionary of the match; "None": None)
MatchAttempts(answers, attempt, max_retries) ==
    IF attempt >= max_retries
    THEN [value |-> "None", requests |-> attempt]
    ELSE IF answers[attempt + 1] = "200"
    THEN [value |-> "result", requests |-> attempt + 1]
    ELSE IF answers[attempt + 1] = "429"
    THEN MatchAttempts(answers, attempt + 1, max_retries)
    ELSE [value |-> "None", requests |-> attempt + 1]

\* the call fn(..., max_retries) and its return
Fetch(fn, out, max_retries) ==
    /\ program = "FeederBot"
    /\ fetch_call' = [fn |-> fn, value |-> out.value, requests |-> out.requests,
                   max_retries |-> max_retries]
    /\ UNCHANGED <<lobby_vars, pure_vars, bet_vars, task_vars, inhouse_mmr,
                   live_vars, responses>>

InitFetch ==
    /\ program = "FeederBot"
    /\ player_db = [u \in Users |-> NoDoc]
    /\ lobby_players = [g \in {TheGuild} |-> <<>>]
    /\ lobby_message = [g \in {TheGuild} |-> "None"]
    /\ inhouse_mode = [g \in {TheGuild} |-> "absent"]
    /\ mode_store = [g \in {TheGuild} |-> "regular"]
    /\ roll_count = [g \in {TheGuild} |-> 0]
    /\ team_rolls = [g \in {TheGuild} |-> <<>>]
    /\ original_teams = [g \in {TheGuild} |-> <<>>]
    /\ captain_draft_state = [g \in {TheGuild} |-> NoDraft]
    /\ last = Ev("start", TheGuild, <<>>, "ok", <<>>)
    /\ streak = [g \in {TheGuild} |-> -1]
    /\ draft_streak = [g \in {TheGuild} |-> -1]
    /\ gens = [g \in {TheGuild} |-> 0]
    /\ players = <<>>
    /\ ret = NoCall
    /\ NoBets
    /\ NoTasks
    /\ inhouse_mmr = [k \in ServiceGuilds \X Rated |-> NoRating]
    /\ LIVE_CHANNEL_IDS = [g \in ServiceGuilds |-> NoChannel]
    /\ live_channel_store = [g \in ServiceGuilds |-> 0]
    /\ live_embed_messages = [g \in ServiceGuilds |-> 0]
    /\ polling_task = "None"
    /\ live_tasks = 0
    /\ responses \in AnswerLists
    /\ fetch_call = NotFetched

\* the values of max_retries that are tried: the default and a named one
RetryLimits == {DEFAULT_MAX_RETRIES, 2}

CallFetchMmr ==
    \E m \in RetryLimits :
        Fetch("fetch_mmr_from_stratz", StratzAttempts(responses, 0, m), m)

CallFetchMatch ==
    \E m \in RetryLimits :
        Fetch("fetch_match_result", MatchAttempts(responses, 0, m), m)

NextFetch == CallFetchMmr \/ CallFetchMatch

SpecFetch == InitFetch /\ [][NextFetch]_vars

\* C37: fetch_mmr_from_stratz and fetch_match_result always terminate after
\* at most max_retries (5) requests: a request is repeated only after a 429
\* response, any other non-200 status or any exception ends the call at once
\* with the 'no result' value, and exhausting the retries returns that same
\* value.
C37_BoundedRetries ==
    fetch_call.fn # "none" =>
       LET n == fetch_call.requests
           m == fetch_call.max_retries
       IN /\ n <= m
          /\ m = DEFAULT_MAX_RETRIES => n <= 5
          /\ \A i \in 1..(n - 1) : responses[i] = "429"
          /\ n < m => responses[n] # "429"
          /\ (n >= 1 /\ responses[n] = "200") <=> fetch_call.value = "result"
          /\ (n >= 1 /\ responses[n] \in {"500", "exception"}) =>
                fetch_call.value = "None"
          /\ (\A i \in 1..m : responses[i] = "429") =>
                n = m /\ fetch_call.value = "None"

\* fetch_match_result was answered 429 five times: it made five requests
\* and returned None although a sixth request would have been answered 200
C37_Witness ==
    /\ fetch_call.fn = "fetch_match_result"
    /\ fetch_call.max_retries = DEFAULT_MAX_RETRIES
    /\ fetch_call.requests = DEFAULT_MAX_RETRIES
    /\ \A i \in 1..DEFAULT_MAX_RETRIES : responses[i] = "429"
    /\ responses[DEFAULT_MAX_RETRIES + 1] = "200"
    /\ fetch_call.value = "None"

(***************************************************************************)
(* FeederBot.py: the live channel and the polling task.                    *)
(***************************************************************************)
\* the text channels in which setlivechannel is used
Channels == {1, 2}

\* the guilds under whose key LIVE_CHANNEL_IDS holds something
LiveKeys == {g \in ServiceGuilds : LIVE_CHANNEL_IDS[g].kind # "None"}

\* !setlivechannel in channel c of guild g: the dictionary
\* {"live_channel_id": str(channel_id), ...} goes to Firestore, the bare
\* channel_id into LIVE_CHANNEL_IDS
FB_set_live_channel(g, allowed, c) ==
    /\ program = "FeederBot"
    /\ IF allowed
       THEN /\ live_channel_store' = [live_channel_store EXCEPT ![g] = c]
            /\ LIVE_CHANNEL_IDS' = [LIVE_CHANNEL_IDS EXCEPT ![g] = IntChannel(c)]
       ELSE UNCHANGED <<live_channel_store, LIVE_CHANNEL_IDS>>
    /\ last' = Ev("setlivechannel", g, <<c>>,
                  IF allowed THEN "ok" ELSE "denied", <<>>)
    /\ UNCHANGED <<program, player_db, lobby_players, lobby_message,
                   mode_vars, cursor_vars, streak, draft_streak, gens,
                   pure_vars, bet_vars, task_vars, inhouse_mmr,
                   live_embed_messages, polling_task, live_tasks, fetch_vars>>

\* a start_polling that does not look at the task it already has
MayStart_always(task) == TRUE

\* polling_task is None or polling_task.done()
MayStart(task) == task \in {"None", "done"}

\* !startpolling
FB_start_polling(g, allowed) ==
    /\ program = "FeederBot"
    /\ IF allowed /\ MayStart(polling_task)
       THEN /\ polling_task' = "running"
            /\ live_tasks' = live_tasks + 1
       ELSE UNCHANGED <<polling_task, live_tasks>>
    /\ last' = Ev("startpolling", g, <<>>,
                  IF ~allowed THEN "denied"
                  ELSE IF MayStart(polling_task) THEN "started"
                  ELSE "already running", <<>>)
    /\ UNCHANGED <<program, player_db, lobby_players, lobby_message,
                   mode_vars, cursor_vars, streak, draft_streak, gens,
                   pure_vars, bet_vars, task_vars, inhouse_mmr,
                   LIVE_CHANNEL_IDS, live_channel_store, live_embed_messages,
                   fetch_vars>>

\* polling_task and not polling_task.done()
MayStop(task) == task \in {"running", "cancelling"}

\* !stoppolling: polling_task.cancel() asks for the cancellation; the task
\* is done once it has been resumed with CancelledError
FB_stop_polling(g, allowed) ==
    /\ program = "FeederBot"
    /\ polling_task' = IF allowed /\ MayStop(polling_task) THEN "cancelling"
                       ELSE polling_task
    /\ last' = Ev("stoppolling", g, <<>>,
                  IF ~allowed THEN "denied"
                  ELSE IF MayStop(polling_task) THEN "stopped"
                  ELSE "not running", <<>>)
    /\ UNCHANGED <<program, player_db, lobby_players, lobby_message,
                   mode_vars, cursor_vars, streak, draft_streak, gens,
                   pure_vars, bet_vars, task_vars, inhouse_mmr,
                   LIVE_CHANNEL_IDS, live_channel_store, live_embed_messages,
                   live_tasks, fetch_vars>>

\* the event loop resumes the cancelled task: CancelledError is raised at
\* its await; `except Exception` does not catch it and the task ends
PollTaskCancelled ==
    /\ program = "FeederBot"
    /\ polling_task = "cancelling"
    /\ polling_task' = "done"
    /\ live_tasks' = live_tasks - 1
    /\ last' = Ev("cancelled", TheGuild, <<>>, "ok", <<>>)
    /\ UNCHANGED <<program, player_db, lobby_players, lobby_message,
                   mode_vars, cursor_vars, streak, draft_streak, gens,
                   pure_vars, bet_vars, task_vars, inhouse_mmr,
                   LIVE_CHANNEL_IDS, live_channel_store, live_embed_messages,
                   fetch_vars>>

\* one pass of the loop body of poll_live_match for the key g of
\* LIVE_CHANNEL_IDS, in which fetch_live_match_from_steam returns a match
\* bound to g.  The channel of the cached id exists.  deleted: the cached
\* message is gone and edit raises discord.NotFound.
poll_live_match(g, deleted) ==
    LET channel_info == LIVE_CHANNEL_IDS[g]
        previous_message == live_embed_messages[g]
        res == IF channel_info.kind # "dict" THEN "not a dict"
               ELSE IF previous_message # 0 /\ ~deleted THEN "edited"
               ELSE "sent"
        at == IF res = "edited" THEN previous_message
              ELSE IF res = "sent" THEN channel_info.channel
              ELSE 0
    IN /\ program = "FeederBot"
       /\ polling_task = "running"
       /\ g \in LiveKeys
       /\ live_embed_messages' =
             IF res = "sent"
             THEN [live_embed_messages EXCEPT ![g] = channel_info.channel]
             ELSE live_embed_messages
       /\ last' = Ev("poll", g, <<at>>, res, <<>>)
       /\ UNCHANGED <<program, player_db, lobby_players, lobby_message,
                      mode_vars, cursor_vars, streak, draft_streak, gens,
                      pure_vars, bet_vars, task_vars, inhouse_mmr,
                      LIVE_CHANNEL_IDS, live_channel_store, polling_task,
                      live_tasks, fetch_vars>>

\* what on_ready loads into LIVE_CHANNEL_IDS: data.get("live_channel_id"),
\* the dictionary that set_live_channel stored
Loaded(store) ==
    [g \in ServiceGuilds |->
        IF store[g] # 0 THEN DictChannel(store[g]) ELSE NoChannel]

\* the process is started again: the module-level dictionaries are empty,
\* polling_task is None, and on_ready loads LIVE_CHANNEL_IDS from Firestore
FB_on_ready ==
    /\ program = "FeederBot"
    /\ LIVE_CHANNEL_IDS' = Loaded(live_channel_store)
    /\ live_embed_messages' = [g \in ServiceGuilds |-> 0]
    /\ polling_task' = "None"
    /\ live_tasks' = 0
    /\ last' = Ev("on_ready", TheGuild, <<>>, "ok", <<>>)
    /\ UNCHANGED <<program, player_db, lobby_players, lobby_message,
                   mode_vars, cursor_vars, streak, draft_streak, gens,
                   pure_vars, bet_vars, task_vars, inhouse_mmr,
                   live_channel_store, fetch_vars>>

\* the state after a start of the process: a guild has no live channel, or
\* one that was set in an earlier run
InitLive ==
    /\ program = "FeederBot"
    /\ player_db = [u \in Users |-> NoDoc]
    /\ lobby_players = [g \in {TheGuild} |-> <<>>]
    /\ lobby_message = [g \in {TheGuild} |-> "None"]
    /\ inhouse_mode = [g \in {TheGuild} |-> "absent"]
    /\ mode_store = [g \in {TheGuild} |-> "regular"]
    /\ roll_count = [g \in {TheGuild} |-> 0]
    /\ team_rolls = [g \in {TheGuild} |-> <<>>]
    /\ original_teams = [g \in {TheGuild} |-> <<>>]
    /\ captain_draft_state = [g \in {TheGuild} |-> NoDraft]
    /\ last = Ev("start", TheGuild, <<>>, "ok", <<>>)
    /\ streak = [g \in {TheGuild} |-> -1]
    /\ draft_streak = [g \in {TheGuild} |-> -1]
    /\ gens = [g \in {TheGuild} |-> 0]
    /\ players = <<>>
    /\ ret = NoCall
    /\ NoBets
    /\ NoTasks
    /\ inhouse_mmr = [k \in ServiceGuilds \X Rated |-> NoRating]
    /\ live_channel_store \in [ServiceGuilds -> {0, 1}]
    /\ LIVE_CHANNEL_IDS = Loaded(live_channel_store)
    /\ live_embed_messages = [g \in ServiceGuilds |-> 0]
    /\ polling_task = "None"
    /\ live_tasks = 0
    /\ responses = <<>>
    /\ fetch_call = NotFetched

FBSetLiveChannel ==
    \E g \in ServiceGuilds, allowed \in BOOLEAN, c \in Channels :
        FB_set_live_channel(g, allowed, c)

FBStartPolling ==
    \E g \in ServiceGuilds, allowed \in BOOLEAN : FB_start_polling(g, allowed)

FBStopPolling ==
    \E g \in ServiceGuilds, allowed \in BOOLEAN : FB_stop_polling(g, allowed)

PollLiveMatch ==
    \E g \in ServiceGuilds, deleted \in BOOLEAN : poll_live_match(g, deleted)

FBOnReady == \E g \in ServiceGuilds : g = TheGuild /\ FB_on_ready

NextLive ==
    \/ FBSetLiveChannel
    \/ FBStartPolling
    \/ FBStopPolling
    \/ PollTaskCancelled
    \/ PollLiveMatch
    \/ FBOnReady

SpecLive == InitLive /\ [][NextLive]_vars

\* C36: at most one live-match polling task is active at any time: a
\* startpolling issued while a task is running starts no second task, a
\* startpolling after the task has finished or been cancelled starts exactly
\* one, and a stoppolling with no running task changes nothing.
C36_OnePollingTask ==
    /\ [](live_tasks <= 1)
    /\ [][(last'.op = "startpolling" /\ last'.res # "denied") =>
             IF polling_task \in {"running", "cancelling"}
             THEN live_tasks' = live_tasks /\ polling_task' = polling_task
             ELSE /\ live_tasks = 0
                  /\ live_tasks' = 1
                  /\ polling_task' = "running"]_vars
    /\ [][(last'.op = "stoppolling" /\ polling_task \in {"None", "done"}) =>
             UNCHANGED live_vars]_vars

\* a startpolling has started the one task that now runs, in a process in
\* which an earlier task had sent a live-match message: that task was
\* cancelled and had ended
C36_Witness ==
    /\ last.op = "startpolling" /\ last.res = "started"
    /\ polling_task = "running"
    /\ live_tasks = 1
    /\ \E g \in ServiceGuilds : live_embed_messages[g] # 0

\* C38: after setlivechannel has been used in a guild, every later iteration
\* of the polling loop that finds a live match bound to that guild sends or
\* edits the live-match embed in the channel that was set.
C38_EmbedInLiveChannel ==
    [][\A g \in ServiceGuilds :
          (last'.op = "poll" /\ last'.g = g /\ live_channel_store[g] # 0) =>
             /\ last'.res \in {"sent", "edited"}
             /\ last'.arg = <<live_channel_store[g]>>]_vars
====
